---------------------------- MODULE Spec2Model ----------------------------
(***************************************************************************)
(* Pasada-Analytics: the ingestion / migration pipeline.                   *)
(*                                                                         *)
(*  - the line-protocol gateway (QuestDBService) and its query-execution   *)
(*    twin (QuestDBServiceHTTP), as outcome operators of one write call;   *)
(*  - the paginated batch migrator in its three variants                   *)
(*    (migrateToQuestDB.ts, -http.ts, -api.ts), as a state machine;        *)
(*  - the dual write of AnalyticsService.saveTrafficDataDual;              *)
(*  - one call of a query-endpoint path of the time-series store, with or  *)
(*    without BookingsAnalyticsService.withRetry around it;                *)
(*  - the encoders of one record: createILPLine, the line built by         *)
(*    saveTrafficDataToQuestDB, and the VALUES tuple of its HTTP twin.     *)
(*                                                                         *)
(* Rows are counted, not stored: a batch is the number of rows it holds.   *)
(***************************************************************************)
EXTENDS Integers, Sequences, FiniteSets, TLC

\* ------------------------------------------------------------------ bounds
MaxRows == 4       \* source rows matching the filters
MaxOther == 2      \* source rows the filters exclude
MaxBatch == 2      \* --batch-size
MaxWeeks == 2      \* weeks between the oldest and the newest source row
MaxData == 2       \* records in one saveTrafficDataDual call
MaxCalls == 2      \* saveTrafficDataDual calls served by one process
MaxCount == 2      \* daily booking count of a short history
MaxStep == 2       \* step of a progression of daily counts, up or down
MaxOlder == 3      \* days of history older than the progression
MaxHistRows == 2   \* rows of the 4-week hourly aggregate of a route
MaxPersist == 2    \* persistForecast calls served by one process
MaxLost == 1       \* INSERTs applied by the store whose answer never arrives
MaxInserts == 2    \* INSERT statements one invocation has to send
MaxUnits == 2      \* units of work one caller runs one after the other
MaxSeconds == 20   \* largest duration the mapping API answers with
MaxRoutes == 3     \* active routes the relational store answers with

VARIABLES
    \* --- migration run (scripts/migrateToQuestDB*.ts)
    variant,        \* "sql" | "http" | "api": which migrator script runs
    dryRun,         \* options.dryRun
    batchSize,      \* options.batchSize
    srcMatch,       \* rows of public.traffic_analytics matching the filters
    srcOther,       \* rows of public.traffic_analytics the filters exclude
    srcChanged,     \* the source was changed by others since the count
    pc,             \* position of the run inside migrate()
    connected,      \* supabaseClient is connected
    totalRecords,   \* const totalRecords
    countedAt,      \* matching rows at the moment of the count query (-1: none)
    offset,         \* let offset
    totalMigrated,  \* let totalMigrated
    rows,           \* result.rows.length of the batch in hand
    fetchLog,       \* batch fetches issued: <<offset, rows returned (-1: error)>>
    nWrites,        \* saveTrafficDataToQuestDB calls of the batch loop
    tsRequests,     \* requests sent to the time-series write path by the loop
    destRows,       \* traffic rows stored in the destination
    lastWrite,      \* the last gateway write call: operation, response, outcome
    failedAt,       \* offset of the first failed batch fetch or write (-1: none)
    advancedBad,    \* the offset was advanced past a batch whose write failed
    weeksDiff,      \* const weeksDiff
    weekOffset,     \* let weekOffset
    weeklyRequests, \* weekly-summary write requests sent
    failure,        \* which step threw out of migrate() ("none")
    result,         \* "none" | "ok" | "failed": how migrate() settled
    \* --- dual write (services/analyticsService.ts)
    dbConfigured,   \* this.databaseService is not null
    qdbConfigured,  \* this.questdbService is set
    dpc,            \* position inside saveTrafficDataDual
    dataLen,        \* trafficData.length of the call in hand
    relRows,        \* records held by the relational store
    relWritten,     \* records the call in hand wrote to the relational store
    tsRows,         \* records held by the time-series store
    callRequests,   \* requests the call in hand sent to the time-series gateway
    callResp,       \* response to the call's time-series write (-1: none)
    callError,      \* "none" | "relational" | "timeseries": what the call threw
    callResult,     \* "none" | "ok" | "failed"
    relBefore,      \* records the relational store held when the call began
    callTsFailed,   \* the call's time-series write failed (no 2xx answer)
    calls,          \* calls served so far
    \* --- one query-endpoint call (bookingsAnalyticsService.ts, queryAnalytics)
    retryOp,        \* which path is called ("none": no call yet)
    retryPc,        \* "idle" | "attempt" | "wait" | "returned" | "thrown"
    attemptIx,      \* withRetry's loop variable i
    respLog,        \* the answer to each request sent, in order
    waits,          \* the delays slept between attempts, in ms, in order
    lastError,      \* withRetry's lastError: <<attempt, answer>> (<<>>: unset)
    thrownError,    \* the error the call threw (<<>>: none)
    retValue,       \* the value the call returned (-1: none)
    applied,        \* how many times the statement took effect in the store
    \* --- the encoders (services/questdbServices.ts, questdbServices-http.ts)
    weeklyRec,      \* the WeeklyRouteData handed to createILPLine
    trafficRec,     \* the TrafficData handed to saveTrafficDataToQuestDB
    weeklyLine,     \* what createILPLine made of weeklyRec
    trafficLine,    \* the line QuestDBService makes of trafficRec
    trafficValues,  \* the VALUES tuple QuestDBServiceHTTP makes of trafficRec
    \* --- the forecasts of one request
    history,        \* getDailyBookingCounts(): the daily counts, oldest first
    todayDow,       \* the weekday of today, 0 = Sunday
    histRows,       \* the rows of the 4-week hourly aggregate of the route
    forecast,       \* what getSevenDayForecast returned (and its slope)
    enhanced,       \* what getEnhancedPredictions returned
    routeForecast,  \* what generateRouteForecast returned
    \* --- persistForecast and the table booking_forecasts
    pfPc,           \* "idle" | "insert": where the persistForecast call stands
    pfCalls,        \* persistForecast calls started so far
    now,            \* the clock read by new Date()
    forecastDateIso,\* the generation timestamp of the call in progress
    pfIx,           \* the forecast point being inserted, 1..7
    pfAttempt,      \* withRetry's attempt index for that INSERT
    pfLost,         \* answers lost so far
    pfResult,       \* how the last call ended: "none" | "returned" | "threw"
    bookingForecasts, \* the table: how many rows of each (date, day, call)
    latest,         \* what getLatestForecastFromQuestDB returned
    \* --- one batch saved through each transport mode
    saveInput,      \* the batch (n copies of one record) and the status the
                    \* destination answers to every request of the call
    ilpSave,        \* how QuestDBService.saveTrafficDataToQuestDB ended
    httpSave,       \* how QuestDBServiceHTTP.saveTrafficDataToQuestDB ended
    \* --- a write path of the query-execution endpoint
    writePath,      \* the invocation of a write path: path, pc, step, left,
                    \* attempt
    stmtLog,        \* the statements the invocation has sent, with the answer
    tables,         \* the store: per table, -1 (absent) or its row count
    \* --- the relational connection of one QuestDBService instance
    pgClient,       \* this.pgClient of each QuestDBService: 0 for null, else its client
    clients,        \* the pg clients created so far, each with its state
    inv,            \* per caller: the unit of work it runs and where it stands
    \* --- analyzeRouteTraffic
    leg,            \* routes[0].legs[0] of the directions response, or NoLeg
    analysis,       \* what analyzeRouteTraffic returned
    \* --- runTrafficAnalytics
    run,            \* one invocation: its options, its position, its result
    runLog          \* the requests it has issued, oldest first


migVars == <<variant, dryRun, batchSize, srcMatch, srcOther, srcChanged, pc,
             connected, totalRecords, countedAt, offset, totalMigrated, rows,
             fetchLog, nWrites, tsRequests, destRows, lastWrite, failedAt,
             advancedBad, weeksDiff, weekOffset, weeklyRequests, failure, result>>

dualVars == <<dbConfigured, qdbConfigured, dpc, dataLen, relRows, relWritten,
              tsRows, callRequests, callResp, callError, callResult,
              relBefore, callTsFailed, calls>>

retryVars == <<retryOp, retryPc, attemptIx, respLog, waits, lastError,
               thrownError, retValue, applied>>

encVars == <<weeklyRec, trafficRec, weeklyLine, trafficLine, trafficValues>>

fcVars == <<history, todayDow, histRows, forecast, enhanced, routeForecast>>

pfVars == <<pfPc, pfCalls, now, forecastDateIso, pfIx, pfAttempt, pfLost,
            pfResult, bookingForecasts, latest>>

mdVars == <<saveInput, ilpSave, httpSave>>

wpVars == <<writePath, stmtLog, tables>>

cnVars == <<pgClient, clients, inv>>

anVars == <<leg, analysis>>

rtVars == <<run, runLog>>

vars == <<migVars, dualVars, retryVars, encVars, fcVars, pfVars, mdVars, wpVars, cnVars, anVars, rtVars>>

\* ------------------------------------------------------------ the gateway

\* What the write endpoint can answer: 0 stands for no HTTP response at all
\* (the fetch promise rejects), the others are status codes.
Responses == {0, 200, 204, 404, 500}

\* The answers tried for the push of a week: none, accepted, rejected.
WeeklyResponses == {0, 200, 500}

\* node-fetch's response.ok
ResponseOk(status) == status >= 200 /\ status <= 299

Min(a, b) == IF a < b THEN a ELSE b
Max(a, b) == IF a > b THEN a ELSE b

Outcome(threw, sent, stored) == [threw |-> threw, sent |-> sent, stored |-> stored]

\* QuestDBService.saveTrafficDataToQuestDB(trafficData) with n records, the
\* encoding of the lines succeeding or throwing (sanitizeInteger/sanitizeFloat),
\* and the endpoint answering resp.  The response is awaited and never looked at.
SaveTrafficDataToQuestDB(n, encOk, resp) ==
    IF n = 0 THEN Outcome(FALSE, 0, 0)
    ELSE IF ~encOk THEN Outcome(TRUE, 0, 0)
    ELSE IF resp = 0 THEN Outcome(TRUE, 1, 0)
    ELSE Outcome(FALSE, 1, IF ResponseOk(resp) THEN n ELSE 0)

\* QuestDBService.pushToQuestDB(data) with n rows.
PushToQuestDB(n, encOk, resp) ==
    IF n = 0 THEN Outcome(FALSE, 0, 0)
    ELSE IF ~encOk THEN Outcome(TRUE, 0, 0)
    ELSE IF resp = 0 THEN Outcome(TRUE, 1, 0)
    ELSE IF ~ResponseOk(resp) THEN Outcome(TRUE, 1, 0)
    ELSE Outcome(FALSE, 1, n)

\* QuestDBServiceHTTP.executeQuery: throws unless the endpoint answers 2xx.
ExecuteQueryThrows(resp) == resp = 0 \/ ~ResponseOk(resp)

\* QuestDBServiceHTTP.saveTrafficDataToQuestDB(trafficData): the two
\* CREATE TABLE IF NOT EXISTS of ensureTablesExist, then the VALUES list is
\* built (toISOString throws on an invalid timestamp), then one INSERT.
SaveTrafficDataHTTP(n, encOk, ddl1, ddl2, ins) ==
    IF n = 0 THEN Outcome(FALSE, 0, 0)
    ELSE IF ExecuteQueryThrows(ddl1) THEN Outcome(TRUE, 1, 0)
    ELSE IF ExecuteQueryThrows(ddl2) THEN Outcome(TRUE, 2, 0)
    ELSE IF ~encOk THEN Outcome(TRUE, 2, 0)
    ELSE IF ExecuteQueryThrows(ins) THEN Outcome(TRUE, 3, 0)
    ELSE Outcome(FALSE, 3, n)

\* A gateway write call failed in the sense of the write endpoint's contract:
\* no response, or a response that is not 2xx, or nothing sent at all for a
\* non-empty batch.
WriteFailed(n, out) == n > 0 /\ out.stored = 0

NoWrite == [op |-> "none", n |-> 0, resp |-> -1, threw |-> FALSE]

\* ------------------------------------------------------------ the encoders

RECURSIVE Pow10(_)
\* Math.pow(10, precision)
Pow10(p) == IF p = 0 THEN 1 ELSE 10 * Pow10(p - 1)

\* A finite number is held as an integer count of units of 1/Scale: one
\* decimal more than the finest precision the encoder rounds to (4).
Scale == Pow10(4) * 10

\* The JavaScript values a record field can hold.
Num(n) == [k |-> "num", v |-> n]
NaN == [k |-> "nan", v |-> 0]
PosInf == [k |-> "inf", v |-> 0]
NegInf == [k |-> "ninf", v |-> 0]
Null == [k |-> "null", v |-> 0]
Undef == [k |-> "undef", v |-> 0]
Str == [k |-> "str", v |-> 0]        \* a string that is no number, 'abc'

\* What an encoder makes of a field: a value, nothing (the field is not
\* pushed), or an exception.
Absent == [k |-> "absent", v |-> 0]
Thrown == [k |-> "throw", v |-> 0]

\* isNaN(x) of a number
IsNaN(x) == x.k = "nan"

\* Number(x)
ToNumber(x) ==
    IF x.k = "null" THEN Num(0)
    ELSE IF x.k \in {"undef", "str"} THEN NaN
    ELSE x

\* !x
Falsy(x) == x.k \in {"null", "undef", "nan"} \/ x = Num(0)

\* x.toString() throws a TypeError
ToStringThrows(x) == x.k \in {"null", "undef"}

\* parseInt(x.toString()): the integer part, NaN for 'Infinity', 'NaN', 'abc'
ParseInt(x) ==
    IF x.k = "num"
    THEN Num(IF x.v >= 0 THEN (x.v \div Scale) * Scale
                         ELSE -(((-x.v) \div Scale) * Scale))
    ELSE NaN

\* parseFloat(x.toString())
ParseFloat(x) == IF x.k \in {"num", "inf", "ninf"} THEN x ELSE NaN

\* Math.abs(x)
MathAbs(x) ==
    IF x.k = "num" THEN Num(IF x.v < 0 THEN -x.v ELSE x.v)
    ELSE IF x.k = "ninf" THEN PosInf
    ELSE x

\* Mutant of RoundTo: the digits beyond the precision are cut off.
RoundDown(x, p) ==
    IF x.k = "num"
    THEN LET step == Scale \div Pow10(p)
         IN  Num((x.v \div step) * step)
    ELSE x

\* Math.round(x * Math.pow(10, p)) / Math.pow(10, p): the nearest multiple of
\* 10^-p, halves rounded up; an infinity stays what it is.
RoundTo(x, p) ==
    IF x.k = "num"
    THEN LET step == Scale \div Pow10(p)
         IN  Num(((2 * x.v + step) \div (2 * step)) * step)
    ELSE x

isValidNumber(value) ==
    value.k # "null" /\ value.k # "undef" /\ ~IsNaN(ToNumber(value))

sanitizeInteger(value) ==
    IF ToStringThrows(value) THEN Thrown
    ELSE LET num == ParseInt(value)
         IN  IF IsNaN(num) THEN Thrown ELSE num

sanitizeFloat(value, precision) ==
    IF ToStringThrows(value) THEN Thrown
    ELSE LET num == ParseFloat(value)
         IN  IF IsNaN(num) THEN Thrown ELSE RoundTo(num, precision)

\* new Date(`${week_start}T00:00:00+08:00`) and new Date(timestamp) are valid
\* dates for these strings only; '' stands for a missing value.
DateStrings == {"2024-01-01", "not-a-date", ""}
DateParses(s) == s = "2024-01-01"

\* The fields createILPLine pushes behind an isValidNumber test.
OptionalFields ==
    {"avg_traffic_density", "min_traffic_density", "max_traffic_density",
     "avg_duration_seconds", "avg_duration_in_traffic_seconds",
     "avg_traffic_penalty_fraction", "total_distance_meters", "avg_speed_kmh",
     "peak_hour"}

WeeklyFields == {"sample_count"} \cup OptionalFields

\* The fields written with sanitizeInteger and the i suffix.
IntegerFields ==
    {"sample_count", "avg_duration_seconds", "avg_duration_in_traffic_seconds",
     "total_distance_meters", "peak_hour"}

\* The precision handed to sanitizeFloat.
Precision(f) == IF f = "avg_speed_kmh" THEN 2 ELSE 4

Sanitize(f, x) ==
    IF f \in IntegerFields THEN sanitizeInteger(x) ELSE sanitizeFloat(x, Precision(f))

\* The suffix that follows a field's value in the line.
FieldSuffix(f) == IF f \in IntegerFields THEN "i" ELSE ""

\* Mutant of WeeklyField: sample_count is pushed like the optional fields.
WeeklyFieldAllGuarded(data, f) ==
    IF isValidNumber(data[f]) THEN Sanitize(f, data[f]) ELSE Absent

\* One field of createILPLine: sample_count is always pushed, the others
\* only when isValidNumber says so.
WeeklyField(data, f) ==
    IF f = "sample_count" THEN sanitizeInteger(data[f])
    ELSE IF isValidNumber(data[f]) THEN Sanitize(f, data[f])
    ELSE Absent

NoLine == [st |-> "none", err |-> "none", tag |-> Absent, fields |-> <<>>]
Threw(why) == [st |-> "threw", err |-> why, tag |-> Absent, fields |-> <<>>]
Line(tag, fields) == [st |-> "line", err |-> "none", tag |-> tag, fields |-> fields]

createILPLine(data) ==
    IF Falsy(data.route_id) \/ data.week_start = "" THEN Threw("required")
    ELSE LET routeId == MathAbs(ParseInt(data.route_id))
         IN  IF IsNaN(routeId) THEN Threw("route_id")
             ELSE IF ~DateParses(data.week_start) THEN Threw("week_start")
             ELSE LET fields == [f \in WeeklyFields |-> WeeklyField(data, f)]
                  IN  IF \E f \in WeeklyFields : fields[f] = Thrown
                      THEN Threw("value")
                      ELSE IF \A f \in WeeklyFields : fields[f] = Absent
                      THEN Threw("no_fields")
                      ELSE Line(routeId, fields)

\* The numeric columns of a TrafficData besides its routeId.
TrafficFields == {"trafficDensity", "duration", "durationInTraffic", "distance"}

\* The map callback of QuestDBService.saveTrafficDataToQuestDB: BigInt throws
\* on the NaN time of an invalid timestamp; the tag and every field go through
\* sanitizeInteger or sanitizeFloat without a test.
TrafficILPLine(data) ==
    IF ~DateParses(data.timestamp) THEN Threw("timestamp")
    ELSE LET tag == sanitizeInteger(data.routeId)
             fields == [f \in TrafficFields |->
                           IF f = "trafficDensity" THEN sanitizeFloat(data[f], 4)
                           ELSE sanitizeInteger(data[f])]
         IN  IF tag = Thrown \/ \E f \in TrafficFields : fields[f] = Thrown
             THEN Threw("value")
             ELSE Line(tag, fields)

\* The map callback of QuestDBServiceHTTP.saveTrafficDataToQuestDB:
\* toISOString throws on an invalid timestamp; the values are interpolated
\* into the VALUES tuple as they are.
TrafficSQLValues(data) ==
    IF ~DateParses(data.timestamp) THEN Threw("timestamp")
    ELSE Line(data.routeId, [f \in TrafficFields |-> data[f]])

\* The values tried in a numeric field: -3, -2.6, 0, 0.12346, 7.8, and what
\* is no finite number.
NumberValues ==
    {Num(-3 * Scale), Num(-2 * Scale - 6 * (Scale \div 10)), Num(0), Num(12346),
     Num(7 * Scale + 8 * (Scale \div 10))}
JSValues == NumberValues \cup {NaN, PosInf, NegInf, Null, Undef, Str}

\* A well-formed weekly summary and a well-formed traffic record.
BaseWeekly ==
    [week_start |-> "2024-01-01",
     route_id |-> Num(7 * Scale),
     sample_count |-> Num(5 * Scale),
     avg_traffic_density |-> Num(12346),
     min_traffic_density |-> Num(0),
     max_traffic_density |-> Num(Scale),
     avg_duration_seconds |-> Num(600 * Scale + Scale \div 2),
     avg_duration_in_traffic_seconds |-> Num(700 * Scale),
     avg_traffic_penalty_fraction |-> Num(16667),
     total_distance_meters |-> Num(900 * Scale),
     avg_speed_kmh |-> Num(32 * Scale + 12345),
     peak_hour |-> Num(8 * Scale)]

BaseTraffic ==
    [timestamp |-> "2024-01-01",
     routeId |-> Num(7 * Scale),
     trafficDensity |-> Num(12346),
     duration |-> Num(600 * Scale),
     durationInTraffic |-> Num(700 * Scale),
     distance |-> Num(900 * Scale),
     status |-> "active"]

\* The records tried: a well-formed record with one member replaced.
WeeklyInputs ==
    {[BaseWeekly EXCEPT ![f] = x] : f \in {"route_id"} \cup WeeklyFields, x \in JSValues}
        \cup {[BaseWeekly EXCEPT !.week_start = s] : s \in DateStrings}

TrafficInputs ==
    {[BaseTraffic EXCEPT ![f] = x] : f \in {"routeId"} \cup TrafficFields, x \in JSValues}
        \cup {[BaseTraffic EXCEPT !.timestamp = s] : s \in DateStrings \ {""}}

EncIdle ==
    /\ weeklyRec = BaseWeekly
    /\ trafficRec = BaseTraffic
    /\ weeklyLine = NoLine
    /\ trafficLine = NoLine
    /\ trafficValues = NoLine

EncInit ==
    /\ weeklyRec \in WeeklyInputs
    /\ trafficRec \in TrafficInputs
    /\ weeklyLine = NoLine
    /\ trafficLine = NoLine
    /\ trafficValues = NoLine

\* ----------------------------------------------------------- the forecasts

\* Densities and confidences are Numbers in units of 1/Scale.
Tenths(k) == k * (Scale \div 10)
Hundredths(k) == k * (Scale \div 100)

\* Date.getDay() / getUTCDay(): 0 is Sunday, 6 is Saturday.
Weekdays == 0..6

\* for (let i = 1; i <= 7; i++), for (let day = 1; day <= 7; day++)
ForecastDays == 7

\* history.slice(-14)
LastN == 14

\* getDailyBookingCounts(days: number = 90): one point per day, since..today.
DefaultDays == 90
DefaultHistory == DefaultDays + 1

RECURSIVE SumSeq(_)
SumSeq(s) == IF s = <<>> THEN 0 ELSE Head(s) + SumSeq(Tail(s))

\* A quotient num / den with den > 0, kept exact.
Frac(num, den) == [num |-> num, den |-> den]

\* Math.round: the nearest integer, a half goes up.
MathRound(q) == (2 * q.num + q.den) \div (2 * q.den)

\* The weekday of history point j of N, the last point being today's.
DowOf(N, j, today) == (today + 6 * N + j) % 7

\* sums[dow] after history.forEach: { sum, n }.
DowSums(h, today, dow) ==
    LET hit == [j \in 1..Len(h) |-> IF DowOf(Len(h), j, today) = dow THEN 1 ELSE 0]
    IN  [sum |-> SumSeq([j \in 1..Len(h) |-> hit[j] * h[j]]), n |-> SumSeq(hit)]

\* avgs = sums.map(s => s.n > 0 ? s.sum / s.n : 0)
DowAvg(s) == IF s.n > 0 THEN Frac(s.sum, s.n) ELSE Frac(0, 1)

LastNOneMore(h) == SubSeq(h, Max(1, Len(h) - LastN), Len(h))

LastNOf(h) == SubSeq(h, Max(1, Len(h) - LastN + 1), Len(h))

\* The slope of lastN: with xMean = (n-1)/2 and yMean = Y/n,
\*   num = sum (i - xMean)(y_i - yMean) = NumI / (2n),
\*   den = sum (i - xMean)^2            = DenI / 4,
\* so num / den = 2 NumI / (n DenI).
TrendSlope(lastN) ==
    LET n == Len(lastN)
        Y == SumSeq(lastN)
        NumI == SumSeq([k \in 1..n |-> (2 * (k - 1) - n + 1) * (n * lastN[k] - Y)])
        DenI == SumSeq([k \in 1..n |-> (2 * (k - 1) - n + 1) * (2 * (k - 1) - n + 1)])
    IN  IF n >= 2 /\ DenI > 0 THEN Frac(2 * NumI, n * DenI) ELSE Frac(0, 1)

\* trendAdj = slope * (history.length + i - history.length)
TrendAdj(slope, N, i) == Frac(slope.num * (N + i - N), slope.den)

PredictedNoFloor(base, adj) ==
    MathRound(Frac(base.num * adj.den + adj.num * base.den, base.den * adj.den))

\* Math.max(0, Math.round(base + trendAdj))
Predicted(base, adj) ==
    Max(0, MathRound(Frac(base.num * adj.den + adj.num * base.den, base.den * adj.den)))

BookingsConfidenceUncapped(n) == Tenths(4) + (n * Tenths(5)) \div 8

\* Math.min(0.95, 0.4 + Math.min(1, sums[dow].n / 8) * 0.5)
BookingsConfidence(n) ==
    Min(Hundredths(95), Tenths(4) + (IF n >= 8 THEN Tenths(5) ELSE (n * Tenths(5)) \div 8))

NoForecast == [st |-> "none", slope |-> Frac(0, 1), points |-> <<>>]

getSevenDayForecast(h, today) ==
    LET slope == TrendSlope(LastNOf(h))
    IN  [st |-> "done",
         slope |-> slope,
         points |-> [i \in 1..ForecastDays |->
            LET dow == (today + i) % 7
                s == DowSums(h, today, dow)
            IN  [dow |-> dow,
                 n |-> s.n,
                 base |-> DowAvg(s),
                 predicted_count |-> Predicted(DowAvg(s), TrendAdj(slope, Len(h), i)),
                 confidence |-> BookingsConfidence(s.n)]]]

\* Daily counts tried: short arbitrary histories, arithmetic progressions
\* (behind older days or not), and histories of the default length.
Progression(a, d, len) == [k \in 1..len |-> a + d * (k - 1)]
Flat(c, len) == [k \in 1..len |-> c]

RECURSIVE SeqsUpTo(_, _)
SeqsUpTo(S, len) ==
    IF len = 0 THEN {<<>>}
    ELSE LET shorter == SeqsUpTo(S, len - 1)
         IN  shorter \cup {Append(s, x) : s \in {t \in shorter : Len(t) = len - 1}, x \in S}

Histories ==
    LET runs == {Progression(a, d, len) :
                    a \in {0, 10, 13 * MaxStep}, d \in (0 - MaxStep)..MaxStep, len \in {2, 3, LastN}}
        ok == {r \in runs : \A k \in 1..Len(r) : r[k] >= 0}
    IN  SeqsUpTo(0..MaxCount, 3)
            \cup {Flat(20, p) \o r : p \in 0..MaxOlder, r \in ok}
            \cup {Flat(c, DefaultHistory) : c \in {0, 4}}
            \cup {Flat(20, DefaultHistory - LastN) \o Progression(13 * MaxStep, 0 - MaxStep, LastN)}

\* The hour-of-day strategy: the rows of the 4-week aggregate, GROUP BY hour.
KeyHours == {7, 9, 12, 17, 19, 22}
Hours == 0..23

\* findRow: historicalData.find(row => parseInt(row[0]) === hour)
HasRow(rws, hour) == \E r \in rws : r.hour = hour
RowOf(rws, hour) == CHOOSE r \in rws : r.hour = hour

DefaultDensityNoWeekend(hour, dayOfWeek) ==
    IF hour >= 7 /\ hour <= 9 THEN Tenths(7)
    ELSE IF hour >= 17 /\ hour <= 19 THEN Tenths(8)
    ELSE IF hour >= 22 \/ hour <= 6 THEN Tenths(2)
    ELSE Tenths(3)

\* WeeklyAnalyticsService.getDefaultDensityForHour
getDefaultDensityForHour(hour, dayOfWeek) ==
    LET isWeekend == dayOfWeek = 0 \/ dayOfWeek = 6
    IN  IF hour >= 7 /\ hour <= 9 THEN (IF isWeekend THEN Tenths(4) ELSE Tenths(7))
        ELSE IF hour >= 17 /\ hour <= 19 THEN (IF isWeekend THEN Tenths(5) ELSE Tenths(8))
        ELSE IF hour >= 22 \/ hour <= 6 THEN Tenths(2)
        ELSE Tenths(3)

\* AnalyticsService.getBasicDensityForHour
getBasicDensityForHour(hour, dayOfWeek) ==
    LET isWeekend == dayOfWeek = 0 \/ dayOfWeek = 6
    IN  IF hour >= 7 /\ hour <= 9 THEN (IF isWeekend THEN Tenths(4) ELSE Tenths(7))
        ELSE IF hour >= 17 /\ hour <= 19 THEN (IF isWeekend THEN Tenths(5) ELSE Tenths(8))
        ELSE IF hour >= 22 \/ hour <= 6 THEN Tenths(2)
        ELSE Tenths(3)

TrafficDensityWeekdayBands(hour) == DefaultDensityNoWeekend(hour, 1)

\* TrafficAnalyticsService.getDefaultTrafficDensity
getDefaultTrafficDensity(hour) ==
    IF hour >= 7 /\ hour <= 9 THEN Tenths(6)
    ELSE IF hour >= 17 /\ hour <= 19 THEN Tenths(7)
    ELSE IF hour >= 23 \/ hour <= 5 THEN Tenths(1)
    ELSE Tenths(3)

WeeklyConfidenceUncapped(hasRow, dataPoints) ==
    IF hasRow /\ dataPoints > 5 THEN Tenths(3) + dataPoints * Tenths(1) ELSE Tenths(3)

\* historicalRow && dataPoints > 5 ? Math.min(0.9, 0.3 + dataPoints * 0.1) : 0.3
WeeklyConfidence(hasRow, dataPoints) ==
    IF hasRow /\ dataPoints > 5
    THEN Min(Tenths(9), Tenths(3) + dataPoints * Tenths(1))
    ELSE Tenths(3)

TrafficConfidenceUncapped(dataPoints) == Tenths(4) + dataPoints * Hundredths(5)

\* Math.min(0.95, 0.4 + dataPoints * 0.05)
TrafficConfidence(dataPoints) == Min(Hundredths(95), Tenths(4) + dataPoints * Hundredths(5))

NoPredictions == [st |-> "none", by |-> "none", preds |-> <<>>]

\* WeeklyAnalyticsService.createPredictions
createPredictions(historicalData, nowDow) ==
    [st |-> "done", by |-> "weekly",
     preds |-> [p \in (1..ForecastDays) \X KeyHours |->
        LET hour == p[2]
            found == HasRow(historicalData, hour)
            dataPoints == IF found THEN RowOf(historicalData, hour).data_points ELSE 0
        IN  [predictedDensity |->
                IF found THEN RowOf(historicalData, hour).avg_density
                ELSE getDefaultDensityForHour(hour, (nowDow + p[1]) % 7),
             confidence |-> WeeklyConfidence(found, dataPoints)]]]

BasicPredictionsByDensity(nowDow) ==
    [st |-> "done", by |-> "basic",
     preds |-> [p \in (1..ForecastDays) \X KeyHours |->
        [predictedDensity |-> getBasicDensityForHour(p[2], (nowDow + p[1]) % 7),
         confidence |-> getBasicDensityForHour(p[2], (nowDow + p[1]) % 7)]]]

\* AnalyticsService.generateBasicPredictions
generateBasicPredictions(nowDow) ==
    [st |-> "done", by |-> "basic",
     preds |-> [p \in (1..ForecastDays) \X KeyHours |->
        [predictedDensity |-> getBasicDensityForHour(p[2], (nowDow + p[1]) % 7),
         confidence |-> Tenths(3)]]]

\* TrafficAnalyticsService.generateRouteForecast
generateRouteForecast(historicalData) ==
    IF historicalData = {} THEN [st |-> "null", by |-> "traffic", preds |-> <<>>]
    ELSE [st |-> "done", by |-> "traffic",
          preds |-> [hour \in Hours |->
            IF HasRow(historicalData, hour)
            THEN [predicted_density |-> RowOf(historicalData, hour).avg_density,
                  confidence |-> TrafficConfidence(RowOf(historicalData, hour).data_points)]
            ELSE [predicted_density |-> getDefaultTrafficDensity(hour),
                  confidence |-> Tenths(3)]]]

\* The aggregates tried: at most MaxHistRows rows, one per hour (GROUP BY
\* hour), each counting at least one sample (count(*)) of average density 0.55.
RowHours == {3, 7, 12, 18, 22}
PointsTried == {1, 5, 6, 12}
RowsTried == {[hour |-> h, avg_density |-> Hundredths(55), data_points |-> n] :
                h \in RowHours, n \in PointsTried}
RECURSIVE RowSetsUpTo(_)
RowSetsUpTo(k) ==
    IF k = 0 THEN {{}}
    ELSE LET fewer == RowSetsUpTo(k - 1)
         IN  fewer \cup UNION {{rws \cup {r} : r \in {q \in RowsTried : ~HasRow(rws, q.hour)}} :
                                  rws \in fewer}
RowSets == RowSetsUpTo(MaxHistRows)

FcIdle ==
    /\ history = <<>>
    /\ todayDow = 0
    /\ histRows = {}
    /\ forecast = NoForecast
    /\ enhanced = NoPredictions
    /\ routeForecast = NoPredictions

\* One request is served: the bookings of one history, or the aggregate of
\* one route.
FcInit ==
    /\ todayDow \in Weekdays
    /\ \/ history \in Histories /\ histRows = {}
       \/ history = <<>> /\ histRows \in RowSets
    /\ forecast = NoForecast
    /\ enhanced = NoPredictions
    /\ routeForecast = NoPredictions

\* ------------------------------------------------- the persisted forecast

\* booking_forecasts before the first INSERT.
NoRows == [r \in {} |-> 0]

NotRead == [st |-> "none", rows |-> NoRows]

\* One more row (forecast_date, target_day) in the table; call is the call
\* that sent the INSERT, kept for the record only.
InsertRow(tbl, row) ==
    IF row \in DOMAIN tbl THEN [tbl EXCEPT ![row] = @ + 1] ELSE tbl @@ (row :> 1)

\* SELECT max(forecast_date) FROM booking_forecasts
MaxForecastDate(tbl) ==
    CHOOSE d \in {r.forecast_date : r \in DOMAIN tbl} :
        \A r \in DOMAIN tbl : r.forecast_date <= d

\* getLatestForecastFromQuestDB: WHERE forecast_date = (SELECT max(...))
LatestRows(tbl) ==
    IF DOMAIN tbl = {} THEN NoRows
    ELSE LET sel == {r \in DOMAIN tbl : r.forecast_date = MaxForecastDate(tbl)}
         IN  [r \in sel |-> tbl[r]]

PfIdle ==
    /\ pfPc = "idle"
    /\ pfCalls = 0
    /\ now = 0
    /\ forecastDateIso = 0
    /\ pfIx = 0
    /\ pfAttempt = 0
    /\ pfLost = 0
    /\ pfResult = "none"
    /\ bookingForecasts = NoRows
    /\ latest = NotRead

\* ------------------------------------------------------ the transport modes

NotSaved == [st |-> "none", stored |-> 0, row |-> NoLine]

\* What the caller and the destination see of one save call: whether it threw,
\* how many rows the destination stored, and the row as it was sent.
Saved(out, row) ==
    [st |-> IF out.threw THEN "threw" ELSE "returned",
     stored |-> out.stored,
     row |-> IF out.stored > 0 THEN row ELSE NoLine]

\* QuestDBService.saveTrafficDataToQuestDB: the lines, then one POST.
SaveStreaming(in) ==
    Saved(SaveTrafficDataToQuestDB(in.n, TrafficILPLine(in.rec).st = "line", in.resp),
          TrafficILPLine(in.rec))

\* QuestDBServiceHTTP.saveTrafficDataToQuestDB: ensureTablesExist, the VALUES
\* list, then one INSERT.
SaveQuery(in) ==
    Saved(SaveTrafficDataHTTP(in.n, TrafficSQLValues(in.rec).st = "line",
                              in.resp, in.resp, in.resp),
          TrafficSQLValues(in.rec))

SaveInputs == [rec : TrafficInputs, n : 0..MaxData, resp : Responses]

ModesIdle ==
    /\ saveInput = [rec |-> BaseTraffic, n |-> 0, resp |-> 200]
    /\ ilpSave = NotSaved
    /\ httpSave = NotSaved

ModesInit ==
    /\ saveInput \in SaveInputs
    /\ ilpSave = NotSaved
    /\ httpSave = NotSaved

\* ------------------------------------ the write paths of the query endpoint

TableNames == {"traffic_analytics", "route_weekly_summary", "booking_daily_counts",
               "booking_forecasts", "route_traffic_analysis", "route_traffic_forecasts"}

NoInvocation == [path |-> "none", pc |-> "idle", step |-> 0, left |-> 0, attempt |-> 0]

WriteIdle ==
    /\ writePath = NoInvocation
    /\ stmtLog = <<>>
    /\ tables = [t \in TableNames |-> -1]

\* ------------------------------------------------ the relational connection

\* A caller between two units of work.
NoUnit == [unit |-> "none", pc |-> "idle", c |-> 0, done |-> 0,
           outcome |-> "none", badQuery |-> FALSE]

\* The QuestDBService objects the units of work go through: the one of the
\* server's WeeklyAnalyticsService, the one of the WeeklyAnalyticsService of
\* AnalyticsService, and the one of TrafficAnalyticsService.
Services == {"weekly", "predictions", "traffic"}

NoClient == [s \in Services |-> 0]

ConnIdle ==
    /\ pgClient = NoClient
    /\ clients = <<>>
    /\ inv = <<>>

\* ------------------------------------------------------ the traffic analysis

NoLeg == [status |-> "none", duration |-> 0, inTraffic |-> 0]

NotAnalyzed == [st |-> "none"]

AnalyzeIdle ==
    /\ leg = NoLeg
    /\ analysis = NotAnalyzed

\* A JavaScript number that is a quotient of two integers, or NaN.
Quot(num, den) == [nan |-> FALSE, num |-> num, den |-> den]

NotANumber == [nan |-> TRUE, num |-> 0, den |-> 1]

\* x <= k / 100; every comparison with NaN is false.
LeqHundredths(x, k) == ~x.nan /\ x.num * 100 <= k * x.den

\* Math.min(1, penalty / duration): x / 0 is Infinity for x > 0 and NaN for
\* x = 0, and Math.min returns NaN when an argument is NaN.
TrafficDensity(duration, inTraffic) ==
    LET penalty == inTraffic - duration
    IN  IF duration = 0
        THEN IF penalty = 0 THEN NotANumber ELSE Quot(1, 1)
        ELSE IF penalty >= duration THEN Quot(1, 1)
        ELSE Quot(penalty, duration)

\* The severity thresholds, in hundredths.
SeverityOf(density) ==
    IF LeqHundredths(density, 15) THEN "low"
    ELSE IF LeqHundredths(density, 35) THEN "moderate"
    ELSE IF LeqHundredths(density, 65) THEN "high"
    ELSE "severe"

\* analyzeRouteTraffic from the directions response on: null unless the status
\* is OK and a route came back; duration?.value || 0 and
\* duration_in_traffic?.value || durationSeconds, an absent value being -1.
analyzeRouteTraffic(l) ==
    IF l.status # "OK" THEN [st |-> "null"]
    ELSE LET durationSeconds == IF l.duration <= 0 THEN 0 ELSE l.duration
             durationInTrafficSeconds ==
                 IF l.inTraffic <= 0 THEN durationSeconds ELSE l.inTraffic
             density == TrafficDensity(durationSeconds, durationInTrafficSeconds)
         IN  [st |-> "analysis",
              duration_seconds |-> durationSeconds,
              duration_in_traffic_seconds |-> durationInTrafficSeconds,
              traffic_penalty_seconds |-> durationInTrafficSeconds - durationSeconds,
              traffic_density |-> density,
              traffic_severity |-> SeverityOf(density)]

Legs == [status : {"OK", "ZERO_RESULTS", "throws"},
         duration : -1..MaxSeconds, inTraffic : -1..MaxSeconds]

\* --------------------------------------------------- the traffic analytics run

NoResult == [success |-> FALSE, routesAnalyzed |-> -1, forecastsGenerated |-> -1]

NoRun == [pc |-> "idle", generateForecasts |-> FALSE, apiKey |-> FALSE,
          routes |-> 0, i |-> 0, analyses |-> 0, stored |-> 0,
          forecastsGenerated |-> 0, failedIn |-> "none", result |-> NoResult]

RunIdle ==
    /\ run = NoRun
    /\ runLog = <<>>

\* ----------------------------------------------------------- the migrator

Variants == {"sql", "http", "api"}

\* The count query of the SQL migrator: the filtered query with its select
\* list replaced by COUNT(*).
CountQuerySQL(match, other) == match

\* The count query of the HTTP and API migrators: select('*', {count: 'exact',
\* head: true}) on the table, without the filters.
CountQueryAPI(match, other) == match + other

CountQuery(v, match, other) ==
    IF v = "sql" THEN CountQuerySQL(match, other) ELSE CountQueryAPI(match, other)

\* The batch query: LIMIT b OFFSET off (SQL), range(off, off + b - 1) (API),
\* over the rows matching the filters, ordered by timestamp.
FetchRows(match, off, b) == Min(b, Max(0, match - off))

\* Mutant of LoopCond: the loop runs until a fetch comes back empty.
LoopCondIgnoreTotal(off, total) == TRUE

\* while (offset < totalRecords)
LoopCond(off, total) == off < total

\* Mutant of AfterAdvance: a batch shorter than batchSize also ends the loop.
AfterAdvanceShortStop(off, total) ==
    IF LoopCond(off, total) /\ rows >= batchSize THEN "fetch" ELSE "rows_done"

\* The loop test after offset += batchSize.
AfterAdvance(off, total) == IF LoopCond(off, total) THEN "fetch" ELSE "rows_done"

\* The loop test on entry, with offset = 0.
LoopEntry(total) == IF LoopCond(0, total) THEN "fetch" ELSE "rows_done"

\* Mutant of AfterFetch: the batch is written whatever options.dryRun says.
AfterFetchAlwaysWrite(r, dry) == IF r = 0 THEN "rows_done" ELSE "write"

\* Mutant of AfterFetch: an empty batch does not break out of the loop.
AfterFetchNoBreak(r, dry) == IF dry THEN "advance" ELSE "write"

\* What follows a fetch that returned r rows.
AfterFetch(r, dry) == IF r = 0 THEN "rows_done" ELSE IF dry THEN "advance" ELSE "write"

AfterWeekAbort(next, weeks, threw) ==
    IF threw \/ next >= weeks THEN "finally" ELSE "weekly_week"

\* generateWeeklySummaries(): the catch inside the loop only logs, so the
\* loop goes on to the next week whether or not this one threw.
AfterWeek(next, weeks, threw) ==
    IF next < weeks THEN "weekly_week" ELSE "finally"

AfterTestStrict(passed, dry) == IF passed THEN "count" ELSE "finally"

\* migrate(): a failed connectivity test is only a warning in a dry run.
AfterTest(passed, dry) == IF passed \/ dry THEN "count" ELSE "finally"

\* if (!options.dryRun) await this.generateWeeklySummaries(options); the HTTP
\* migrator has no weekly phase.
AfterRows(v, dry) == IF dry \/ v = "http" THEN "finally" ELSE "weekly_range"

MigInit ==
    /\ variant \in Variants
    /\ dryRun \in BOOLEAN
    /\ batchSize \in 0..MaxBatch
    /\ srcMatch \in 0..MaxRows
    /\ srcOther \in 0..MaxOther
    /\ srcChanged = FALSE
    /\ pc = "start"
    /\ connected = FALSE
    /\ totalRecords = 0
    /\ countedAt = -1
    /\ offset = 0
    /\ totalMigrated = 0
    /\ rows = 0
    /\ fetchLog = <<>>
    /\ nWrites = 0
    /\ tsRequests = 0
    /\ destRows = 0
    /\ lastWrite = NoWrite
    /\ failedAt = -1
    /\ advancedBad = FALSE
    /\ weeksDiff = 0
    /\ weekOffset = 0
    /\ weeklyRequests = 0
    /\ failure = "none"
    /\ result = "none"

DualIdle ==
    /\ dbConfigured = FALSE
    /\ qdbConfigured = FALSE
    /\ dpc = "idle"
    /\ dataLen = 0
    /\ relRows = 0
    /\ relWritten = 0
    /\ tsRows = 0
    /\ callRequests = 0
    /\ callResp = -1
    /\ callError = "none"
    /\ callResult = "none"
    /\ relBefore = 0
    /\ callTsFailed = FALSE
    /\ calls = 0

RetryIdle ==
    /\ retryOp = "none"
    /\ retryPc = "idle"
    /\ attemptIx = 0
    /\ respLog = <<>>
    /\ waits = <<>>
    /\ lastError = <<>>
    /\ thrownError = <<>>
    /\ retValue = -1
    /\ applied = 0

Throw(step) ==
    /\ failure' = step
    /\ pc' = "finally"

\* migrate(): supabaseClient.connect() (SQL) or the probing count (HTTP, API).
Connect ==
    /\ pc = "start"
    /\ \E ok \in BOOLEAN :
        IF ok
        THEN /\ connected' = (variant = "sql")
             /\ pc' = "test"
             /\ UNCHANGED failure
        ELSE /\ Throw("connect")
             /\ UNCHANGED connected
    /\ UNCHANGED <<variant, dryRun, batchSize, srcMatch, srcOther, srcChanged,
                   totalRecords, countedAt, offset, totalMigrated, rows,
                   fetchLog, nWrites, tsRequests, destRows, lastWrite, failedAt,
                   advancedBad, weeksDiff, weekOffset, weeklyRequests, result>>
    /\ UNCHANGED <<dualVars, retryVars, encVars, fcVars, pfVars, mdVars, wpVars, cnVars, anVars, rtVars>>

\* migrate(): testQuestDBConnection; its failure is fatal only to a real run.
TestConnection ==
    /\ pc = "test"
    /\ \E resp \in Responses, empty \in BOOLEAN :
        LET passed == resp # 0 /\ ResponseOk(resp) /\ ~empty
        IN  IF AfterTest(passed, dryRun) = "count"
            THEN /\ pc' = "count"
                 /\ UNCHANGED failure
            ELSE Throw("test")
    /\ UNCHANGED <<variant, dryRun, batchSize, srcMatch, srcOther, srcChanged,
                   connected, totalRecords, countedAt, offset, totalMigrated,
                   rows, fetchLog, nWrites, tsRequests, destRows, lastWrite,
                   failedAt, advancedBad, weeksDiff, weekOffset, weeklyRequests,
                   result>>
    /\ UNCHANGED <<dualVars, retryVars, encVars, fcVars, pfVars, mdVars, wpVars, cnVars, anVars, rtVars>>

\* migrateTrafficAnalytics(): the count query, the zero test, let offset = 0.
Count ==
    /\ pc = "count"
    /\ \E ok \in BOOLEAN :
        IF ok
        THEN /\ totalRecords' = CountQuery(variant, srcMatch, srcOther)
             /\ countedAt' = srcMatch
             /\ pc' = IF totalRecords' = 0
                      THEN AfterRows(variant, dryRun)
                      ELSE LoopEntry(totalRecords')
             /\ UNCHANGED failure
        ELSE /\ Throw("count")
             /\ UNCHANGED <<totalRecords, countedAt>>
    /\ offset' = 0
    /\ totalMigrated' = 0
    /\ srcChanged' = FALSE
    /\ UNCHANGED <<variant, dryRun, batchSize, srcMatch, srcOther, connected,
                   rows, fetchLog, nWrites, tsRequests, destRows, lastWrite,
                   failedAt, advancedBad, weeksDiff, weekOffset, weeklyRequests,
                   result>>
    /\ UNCHANGED <<dualVars, retryVars, encVars, fcVars, pfVars, mdVars, wpVars, cnVars, anVars, rtVars>>

\* One batch query of the loop, and the break on an empty result.
Fetch ==
    /\ pc = "fetch"
    /\ \E ok \in BOOLEAN :
        IF ok
        THEN /\ rows' = FetchRows(srcMatch, offset, batchSize)
             /\ fetchLog' = Append(fetchLog, <<offset, rows'>>)
             /\ pc' = AfterFetch(rows', dryRun)
             /\ UNCHANGED <<failure, failedAt>>
        ELSE /\ Throw("fetch")
             /\ fetchLog' = Append(fetchLog, <<offset, -1>>)
             /\ failedAt' = IF failedAt = -1 THEN offset ELSE failedAt
             /\ UNCHANGED rows
    /\ UNCHANGED <<variant, dryRun, batchSize, srcMatch, srcOther, srcChanged,
                   connected, totalRecords, countedAt, offset, totalMigrated,
                   nWrites, tsRequests, destRows, lastWrite, advancedBad,
                   weeksDiff, weekOffset, weeklyRequests, result>>
    /\ UNCHANGED <<dualVars, retryVars, encVars, fcVars, pfVars, mdVars, wpVars, cnVars, anVars, rtVars>>

\* The batch write of a real run: saveTrafficDataToQuestDB(trafficData).
WriteBatch ==
    /\ pc = "write"
    /\ \E encOk \in BOOLEAN, resp \in Responses,
          ddl1 \in (IF variant = "http" THEN Responses ELSE {200}),
          ddl2 \in (IF variant = "http" THEN Responses ELSE {200}) :
        \* only the HTTP variant sends the two DDL statements
        LET out == IF variant = "http"
                   THEN SaveTrafficDataHTTP(rows, encOk, ddl1, ddl2, resp)
                   ELSE SaveTrafficDataToQuestDB(rows, encOk, resp)
        IN  /\ nWrites' = nWrites + 1
            /\ tsRequests' = tsRequests + out.sent
            /\ destRows' = destRows + out.stored
            /\ lastWrite' = [op |-> IF variant = "http" THEN "insert" ELSE "save",
                             n |-> rows,
                             resp |-> IF out.sent = 0 THEN -1 ELSE resp,
                             threw |-> out.threw]
            /\ failedAt' = IF failedAt = -1 /\ WriteFailed(rows, out)
                           THEN offset ELSE failedAt
            /\ IF out.threw
               THEN Throw("write")
               ELSE /\ pc' = "advance"
                    /\ UNCHANGED failure
    /\ UNCHANGED <<variant, dryRun, batchSize, srcMatch, srcOther, srcChanged,
                   connected, totalRecords, countedAt, offset, totalMigrated,
                   rows, fetchLog, advancedBad, weeksDiff, weekOffset,
                   weeklyRequests, result>>
    /\ UNCHANGED <<dualVars, retryVars, encVars, fcVars, pfVars, mdVars, wpVars, cnVars, anVars, rtVars>>

\* totalMigrated += rows; offset += batchSize; the loop test.
Advance ==
    /\ pc = "advance"
    /\ totalMigrated' = totalMigrated + rows
    /\ offset' = offset + batchSize
    /\ advancedBad' = (advancedBad \/ (failedAt = offset))
    /\ pc' = AfterAdvance(offset', totalRecords)
    /\ UNCHANGED <<variant, dryRun, batchSize, srcMatch, srcOther, srcChanged,
                   connected, totalRecords, countedAt, rows, fetchLog, nWrites,
                   tsRequests, destRows, lastWrite, failedAt, weeksDiff,
                   weekOffset, weeklyRequests, failure, result>>
    /\ UNCHANGED <<dualVars, retryVars, encVars, fcVars, pfVars, mdVars, wpVars, cnVars, anVars, rtVars>>

\* migrate(), after migrateTrafficAnalytics returned: the dry-run test.
RowsDone ==
    /\ pc = "rows_done"
    /\ pc' = AfterRows(variant, dryRun)
    /\ UNCHANGED <<variant, dryRun, batchSize, srcMatch, srcOther, srcChanged,
                   connected, totalRecords, countedAt, offset, totalMigrated,
                   rows, fetchLog, nWrites, tsRequests, destRows, lastWrite,
                   failedAt, advancedBad, weeksDiff, weekOffset, weeklyRequests,
                   failure, result>>
    /\ UNCHANGED <<dualVars, retryVars, encVars, fcVars, pfVars, mdVars, wpVars, cnVars, anVars, rtVars>>

\* generateWeeklySummaries(): the date range of the whole table and weeksDiff.
\* SQL: a failing query throws, an empty table returns.  API: a failing query
\* returns, an empty table makes dateRange[0].timestamp throw.
WeeklyRange ==
    /\ pc = "weekly_range"
    /\ \E ok \in BOOLEAN, w \in 0..MaxWeeks :
        LET table == srcMatch + srcOther
            throws == IF variant = "sql" THEN ~ok ELSE ok /\ table = 0
            returns == IF variant = "sql" THEN table = 0 ELSE ~ok
            weeks == IF table <= 1 THEN 0 ELSE w
        IN  IF throws
            THEN /\ Throw("weekly")
                 /\ UNCHANGED weeksDiff
            ELSE /\ weeksDiff' = IF returns THEN 0 ELSE weeks
                 /\ pc' = IF weeksDiff' > 0 THEN "weekly_week" ELSE "finally"
                 /\ UNCHANGED failure
    /\ weekOffset' = 0
    /\ UNCHANGED <<variant, dryRun, batchSize, srcMatch, srcOther, srcChanged,
                   connected, totalRecords, countedAt, offset, totalMigrated,
                   rows, fetchLog, nWrites, tsRequests, destRows, lastWrite,
                   failedAt, advancedBad, weeklyRequests, result>>
    /\ UNCHANGED <<dualVars, retryVars, encVars, fcVars, pfVars, mdVars, wpVars, cnVars, anVars, rtVars>>

\* One week of the rollup loop: calculateWeeklySummariesFromSupabase, then
\* pushToQuestDB when it returned rows; any error is caught and logged.
WeeklyWeek ==
    /\ pc = "weekly_week"
    /\ \E calcOk \in BOOLEAN, k \in 0..1 :
      \E encOk \in (IF variant = "sql" /\ calcOk /\ k > 0 THEN BOOLEAN ELSE {TRUE}),
         resp \in (IF variant = "sql" /\ calcOk /\ k > 0 THEN WeeklyResponses ELSE {200}) :
        \* nothing is encoded or sent unless the week has rows
        LET n == IF variant = "sql" /\ calcOk THEN k ELSE 0
            out == PushToQuestDB(n, encOk, resp)
        IN  /\ weeklyRequests' = weeklyRequests + out.sent
            /\ lastWrite' = IF n = 0 THEN lastWrite
                            ELSE [op |-> "push", n |-> n,
                                  resp |-> IF out.sent = 0 THEN -1 ELSE resp,
                                  threw |-> out.threw]
            /\ weekOffset' = weekOffset + 1
            /\ pc' = AfterWeek(weekOffset', weeksDiff, ~calcOk \/ out.threw)
    /\ UNCHANGED <<variant, dryRun, batchSize, srcMatch, srcOther, srcChanged,
                   connected, totalRecords, countedAt, offset, totalMigrated,
                   rows, fetchLog, nWrites, tsRequests, destRows, failedAt,
                   advancedBad, weeksDiff, failure, result>>
    /\ UNCHANGED <<dualVars, retryVars, encVars, fcVars, pfVars, mdVars, wpVars, cnVars, anVars, rtVars>>

\* migrate(): catch (rethrow) and finally (supabaseClient.end()).
Finally ==
    /\ pc = "finally"
    /\ connected' = FALSE
    /\ result' = IF failure = "none" THEN "ok" ELSE "failed"
    /\ pc' = "done"
    /\ UNCHANGED <<variant, dryRun, batchSize, srcMatch, srcOther, srcChanged,
                   totalRecords, countedAt, offset, totalMigrated, rows,
                   fetchLog, nWrites, tsRequests, destRows, lastWrite, failedAt,
                   advancedBad, weeksDiff, weekOffset, weeklyRequests, failure>>
    /\ UNCHANGED <<dualVars, retryVars, encVars, fcVars, pfVars, mdVars, wpVars, cnVars, anVars, rtVars>>

InBatchLoop == pc \in {"fetch", "write", "advance"}

\* Another process inserts a matching row into the source while the loop runs.
SrcInsert ==
    /\ InBatchLoop
    /\ srcMatch < MaxRows
    /\ srcMatch' = srcMatch + 1
    /\ srcChanged' = TRUE
    /\ UNCHANGED <<variant, dryRun, batchSize, srcOther, pc, connected,
                   totalRecords, countedAt, offset, totalMigrated, rows,
                   fetchLog, nWrites, tsRequests, destRows, lastWrite, failedAt,
                   advancedBad, weeksDiff, weekOffset, weeklyRequests, failure,
                   result>>
    /\ UNCHANGED <<dualVars, retryVars, encVars, fcVars, pfVars, mdVars, wpVars, cnVars, anVars, rtVars>>

\* Another process deletes a matching row from the source while the loop runs.
SrcDelete ==
    /\ InBatchLoop
    /\ srcMatch > 0
    /\ srcMatch' = srcMatch - 1
    /\ srcChanged' = TRUE
    /\ UNCHANGED <<variant, dryRun, batchSize, srcOther, pc, connected,
                   totalRecords, countedAt, offset, totalMigrated, rows,
                   fetchLog, nWrites, tsRequests, destRows, lastWrite, failedAt,
                   advancedBad, weeksDiff, weekOffset, weeklyRequests, failure,
                   result>>
    /\ UNCHANGED <<dualVars, retryVars, encVars, fcVars, pfVars, mdVars, wpVars, cnVars, anVars, rtVars>>

MigStep ==
    \/ Connect
    \/ TestConnection
    \/ Count
    \/ Fetch
    \/ WriteBatch
    \/ Advance
    \/ RowsDone
    \/ WeeklyRange
    \/ WeeklyWeek
    \/ Finally

Init == MigInit /\ DualIdle /\ RetryIdle /\ EncIdle /\ FcIdle /\ PfIdle /\ ModesIdle /\ WriteIdle /\ ConnIdle /\ AnalyzeIdle /\ RunIdle

Next == MigStep \/ SrcInsert \/ SrcDelete

Spec == Init /\ [][Next]_vars

\* Every awaited query and request of a run returns: the run is never left
\* waiting, while other processes may change the source at any time or not.
FairSpec == Spec /\ WF_vars(MigStep)

\* --------------------------------------------------------- the dual write

MigIdle ==
    /\ variant = "sql"
    /\ dryRun = TRUE
    /\ batchSize = 1
    /\ srcMatch = 0
    /\ srcOther = 0
    /\ srcChanged = FALSE
    /\ pc = "done"
    /\ connected = FALSE
    /\ totalRecords = 0
    /\ countedAt = -1
    /\ offset = 0
    /\ totalMigrated = 0
    /\ rows = 0
    /\ fetchLog = <<>>
    /\ nWrites = 0
    /\ tsRequests = 0
    /\ destRows = 0
    /\ lastWrite = NoWrite
    /\ failedAt = -1
    /\ advancedBad = FALSE
    /\ weeksDiff = 0
    /\ weekOffset = 0
    /\ weeklyRequests = 0
    /\ failure = "none"
    /\ result = "none"

\* The AnalyticsService constructor: either sink may be left unconfigured.
DualInit ==
    /\ dbConfigured \in BOOLEAN
    /\ qdbConfigured \in BOOLEAN
    /\ dpc = "idle"
    /\ dataLen = 0
    /\ relRows = 0
    /\ relWritten = 0
    /\ tsRows = 0
    /\ callRequests = 0
    /\ callResp = -1
    /\ callError = "none"
    /\ callResult = "none"
    /\ relBefore = 0
    /\ callTsFailed = FALSE
    /\ calls = 0

\* Mutant of AfterRelational: the relational error is swallowed and step 2 runs.
AfterRelationalContinue(threw) == "timeseries"

\* Where saveTrafficDataDual goes after step 1: a throw of the relational
\* write leaves the try block, skipping step 2.
AfterRelational(threw) == IF threw THEN "thrown" ELSE "timeseries"

\* Where it goes after step 2.
AfterTimeseries(threw) == IF threw THEN "thrown" ELSE "return"

\* A caller invokes saveTrafficDataDual(trafficData).
DualCall ==
    /\ dpc = "idle"
    /\ calls < MaxCalls
    /\ \E n \in 0..MaxData : dataLen' = n
    /\ dpc' = "relational"
    /\ relBefore' = relRows
    /\ relWritten' = 0
    /\ callRequests' = 0
    /\ callResp' = -1
    /\ callError' = "none"
    /\ callResult' = "none"
    /\ callTsFailed' = FALSE
    /\ UNCHANGED <<dbConfigured, qdbConfigured, relRows, tsRows, calls>>
    /\ UNCHANGED <<migVars, retryVars, encVars, fcVars, pfVars, mdVars, wpVars, cnVars, anVars, rtVars>>

\* Step 1: if (this.databaseService) await saveTrafficData(trafficData).
DualRelational ==
    /\ dpc = "relational"
    /\ \E ok \in BOOLEAN :
        LET threw == dbConfigured /\ ~ok
            wrote == IF dbConfigured /\ ok THEN dataLen ELSE 0
        IN  /\ relRows' = relRows + wrote
            /\ relWritten' = wrote
            /\ callError' = IF threw THEN "relational" ELSE callError
            /\ dpc' = AfterRelational(threw)
    /\ UNCHANGED <<dbConfigured, qdbConfigured, dataLen, tsRows, callRequests,
                   callResp, callResult, relBefore, callTsFailed, calls>>
    /\ UNCHANGED <<migVars, retryVars, encVars, fcVars, pfVars, mdVars, wpVars, cnVars, anVars, rtVars>>

\* Step 2: if (this.questdbService) await saveTrafficDataToQuestDB(trafficData).
DualTimeseries ==
    /\ dpc = "timeseries"
    /\ \E encOk \in BOOLEAN, resp \in Responses :
        LET out == IF qdbConfigured
                   THEN SaveTrafficDataToQuestDB(dataLen, encOk, resp)
                   ELSE Outcome(FALSE, 0, 0)
        IN  /\ tsRows' = tsRows + out.stored
            /\ callRequests' = callRequests + out.sent
            /\ callResp' = IF out.sent = 0 THEN -1 ELSE resp
            /\ callTsFailed' = (qdbConfigured /\ WriteFailed(dataLen, out))
            /\ callError' = IF out.threw THEN "timeseries" ELSE callError
            /\ dpc' = AfterTimeseries(out.threw)
    /\ UNCHANGED <<dbConfigured, qdbConfigured, dataLen, relRows, relWritten,
                   callResult, relBefore, calls>>
    /\ UNCHANGED <<migVars, retryVars, encVars, fcVars, pfVars, mdVars, wpVars, cnVars, anVars, rtVars>>

\* The call settles: the catch block logs and rethrows, or the call returns.
DualSettle ==
    /\ dpc \in {"thrown", "return"}
    /\ callResult' = IF dpc = "thrown" THEN "failed" ELSE "ok"
    /\ dpc' = "idle"
    /\ calls' = calls + 1
    /\ UNCHANGED <<dbConfigured, qdbConfigured, dataLen, relRows, relWritten,
                   tsRows, callRequests, callResp, callError, relBefore,
                   callTsFailed>>
    /\ UNCHANGED <<migVars, retryVars, encVars, fcVars, pfVars, mdVars, wpVars, cnVars, anVars, rtVars>>

DualNext == DualCall \/ DualRelational \/ DualTimeseries \/ DualSettle

InitDual == MigIdle /\ DualInit /\ RetryIdle /\ EncIdle /\ FcIdle /\ PfIdle /\ ModesIdle /\ WriteIdle /\ ConnIdle /\ AnalyzeIdle /\ RunIdle

SpecDual == InitDual /\ [][DualNext]_vars

\* ------------------------------------------ the query endpoint and withRetry

\* withRetry(fn, attempts = 3, delayMs = 250): no caller passes another value.
Attempts == 3
DelayMs == 250

\* The paths that send a statement to the query endpoint (GET /exec):
\* BookingsAnalyticsService.execQuestDB (CREATE TABLE and INSERT statements),
\* BookingsAnalyticsService.queryQuestDB, QuestDBService.queryAnalytics and
\* QuestDBServiceHTTP.queryAnalytics (SELECT statements).
RetryOps == {"execQuestDB", "queryQuestDB", "queryAnalytics", "queryAnalyticsHTTP"}

\* execQuestDB and queryQuestDB hand their request to withRetry; the two
\* queryAnalytics send it once inside a try block that rethrows.
UsesRetry(op) == op \in {"execQuestDB", "queryQuestDB"}

\* The statement changes the store.
IsWrite(op) == op = "execQuestDB"

\* One request inside fn: the fetch rejects (0) or the answer is not 2xx.
FnThrows(resp) == resp = 0 \/ ~ResponseOk(resp)

\* setTimeout(res, delayMs * (i + 1))
RetryDelay(ix) == DelayMs * (ix + 1)

\* Mutant of AfterCatch: one attempt more before giving up.
AfterCatchOneMore(ix) == IF ix < Attempts THEN "wait" ELSE "thrown"

\* withRetry's catch block: if (i < attempts - 1) wait and continue; after the
\* last attempt the loop ends and lastError is thrown.
AfterCatch(ix) == IF ix < Attempts - 1 THEN "wait" ELSE "thrown"

\* What follows a failed request on a path.
AfterFailure(op, ix) == IF UsesRetry(op) THEN AfterCatch(ix) ELSE "thrown"

\* A caller invokes one of the paths.
RetryCall ==
    /\ retryPc = "idle"
    /\ \E op \in RetryOps : retryOp' = op
    /\ retryPc' = "attempt"
    /\ attemptIx' = 0
    /\ UNCHANGED <<respLog, waits, lastError, thrownError, retValue, applied>>
    /\ UNCHANGED <<migVars, dualVars, encVars, fcVars, pfVars, mdVars, wpVars, cnVars, anVars, rtVars>>

\* One invocation of fn: the request is sent and answered.  A statement whose
\* answer is 2xx took effect; one whose answer never arrived may have.
RetryAttempt ==
    /\ retryPc = "attempt"
    /\ \E resp \in Responses, reached \in BOOLEAN :
        /\ respLog' = Append(respLog, resp)
        /\ applied' = IF IsWrite(retryOp) /\ (ResponseOk(resp) \/ (resp = 0 /\ reached))
                      THEN applied + 1 ELSE applied
        /\ IF FnThrows(resp)
           THEN /\ lastError' = <<attemptIx + 1, resp>>
                /\ retryPc' = AfterFailure(retryOp, attemptIx)
                /\ thrownError' = IF retryPc' = "thrown" THEN lastError' ELSE thrownError
                /\ UNCHANGED retValue
           ELSE /\ retValue' = resp
                /\ retryPc' = "returned"
                /\ UNCHANGED <<lastError, thrownError>>
    /\ UNCHANGED <<retryOp, attemptIx, waits>>
    /\ UNCHANGED <<migVars, dualVars, encVars, fcVars, pfVars, mdVars, wpVars, cnVars, anVars, rtVars>>

\* The sleep between two attempts, then i++.
RetryWait ==
    /\ retryPc = "wait"
    /\ waits' = Append(waits, RetryDelay(attemptIx))
    /\ attemptIx' = attemptIx + 1
    /\ retryPc' = "attempt"
    /\ UNCHANGED <<retryOp, respLog, lastError, thrownError, retValue, applied>>
    /\ UNCHANGED <<migVars, dualVars, encVars, fcVars, pfVars, mdVars, wpVars, cnVars, anVars, rtVars>>

RetryNext == RetryCall \/ RetryAttempt \/ RetryWait

InitRetry == MigIdle /\ DualIdle /\ RetryIdle /\ EncIdle /\ FcIdle /\ PfIdle /\ ModesIdle /\ WriteIdle /\ ConnIdle /\ AnalyzeIdle /\ RunIdle

SpecRetry == InitRetry /\ [][RetryNext]_vars

\* Every request is answered or fails, and every sleep ends.
FairSpecRetry == SpecRetry /\ WF_vars(RetryNext)

\* ------------------------------------------------- the encoders at work

\* pushToQuestDB encodes the row: data.map(row => this.createILPLine(row)).
EncodeWeekly ==
    /\ weeklyLine = NoLine
    /\ weeklyLine' = createILPLine(weeklyRec)
    /\ UNCHANGED <<weeklyRec, trafficRec, trafficLine, trafficValues>>
    /\ UNCHANGED <<migVars, dualVars, retryVars, fcVars, pfVars, mdVars, wpVars, cnVars, anVars, rtVars>>

\* QuestDBService.saveTrafficDataToQuestDB encodes the record.
EncodeTraffic ==
    /\ trafficLine = NoLine
    /\ trafficLine' = TrafficILPLine(trafficRec)
    /\ UNCHANGED <<weeklyRec, trafficRec, weeklyLine, trafficValues>>
    /\ UNCHANGED <<migVars, dualVars, retryVars, fcVars, pfVars, mdVars, wpVars, cnVars, anVars, rtVars>>

\* QuestDBServiceHTTP.saveTrafficDataToQuestDB encodes the record.
EncodeTrafficHTTP ==
    /\ trafficValues = NoLine
    /\ trafficValues' = TrafficSQLValues(trafficRec)
    /\ UNCHANGED <<weeklyRec, trafficRec, weeklyLine, trafficLine>>
    /\ UNCHANGED <<migVars, dualVars, retryVars, fcVars, pfVars, mdVars, wpVars, cnVars, anVars, rtVars>>

EncNext == EncodeWeekly \/ EncodeTraffic \/ EncodeTrafficHTTP

InitEnc == MigIdle /\ DualIdle /\ RetryIdle /\ EncInit /\ FcIdle /\ PfIdle /\ ModesIdle /\ WriteIdle /\ ConnIdle /\ AnalyzeIdle /\ RunIdle

SpecEnc == InitEnc /\ [][EncNext]_vars

\* ------------------------------------------------- the forecasts at work

\* BookingsAnalyticsService.getSevenDayForecast
GetSevenDayForecast ==
    /\ forecast = NoForecast
    /\ forecast' = getSevenDayForecast(history, todayDow)
    /\ UNCHANGED <<history, todayDow, histRows, enhanced, routeForecast>>
    /\ UNCHANGED <<migVars, dualVars, retryVars, encVars, pfVars, mdVars, wpVars, cnVars, anVars, rtVars>>

\* AnalyticsService.getEnhancedPredictions: the weekly service answers from
\* the aggregate; without the service, or when its query throws, the basic
\* predictions are returned.
GetEnhancedPredictions ==
    /\ enhanced = NoPredictions
    /\ \E weekly \in {"answers", "throws", "absent"} :
          enhanced' = IF weekly = "answers"
                      THEN createPredictions(histRows, todayDow)
                      ELSE generateBasicPredictions(todayDow)
    /\ UNCHANGED <<history, todayDow, histRows, forecast, routeForecast>>
    /\ UNCHANGED <<migVars, dualVars, retryVars, encVars, pfVars, mdVars, wpVars, cnVars, anVars, rtVars>>

\* TrafficAnalyticsService.generateRouteForecast
GenerateRouteForecast ==
    /\ routeForecast = NoPredictions
    /\ routeForecast' = generateRouteForecast(histRows)
    /\ UNCHANGED <<history, todayDow, histRows, forecast, enhanced>>
    /\ UNCHANGED <<migVars, dualVars, retryVars, encVars, pfVars, mdVars, wpVars, cnVars, anVars, rtVars>>

FcNext == GetSevenDayForecast \/ GetEnhancedPredictions \/ GenerateRouteForecast

InitFc == MigIdle /\ DualIdle /\ RetryIdle /\ EncIdle /\ FcInit /\ PfIdle /\ ModesIdle /\ WriteIdle /\ ConnIdle /\ AnalyzeIdle /\ RunIdle

SpecFc == InitFc /\ [][FcNext]_vars

\* ------------------------------------------ the persisted forecast at work

\* persistForecast up to the loop: ensureQuestDBTables (two statements that
\* change no row, each through execQuestDB), getSevenDayForecast, and
\* forecastDateIso = new Date().toISOString(). Any of them may throw.
PersistForecastCall ==
    /\ pfPc = "idle"
    /\ pfCalls < MaxPersist
    /\ pfCalls' = pfCalls + 1
    /\ now' = now + 1
    /\ latest' = NotRead
    /\ \E ready \in BOOLEAN :
          IF ready
          THEN /\ pfPc' = "insert"
               /\ forecastDateIso' = now'
               /\ pfIx' = 1
               /\ pfAttempt' = 0
               /\ pfResult' = "none"
          ELSE /\ pfPc' = "idle"
               /\ pfResult' = "threw"
               /\ UNCHANGED <<forecastDateIso, pfIx, pfAttempt>>
    /\ UNCHANGED <<pfLost, bookingForecasts>>
    /\ UNCHANGED <<migVars, dualVars, retryVars, encVars, fcVars, mdVars, wpVars, cnVars, anVars, rtVars>>

\* One attempt of execQuestDB(insert) for forecast point pfIx: the store
\* applies the INSERT when it answers 2xx, and also when its answer is lost
\* on the way back; a thrown attempt is repeated by withRetry, the last one
\* ends the call. After the 7th point the call returns { rows: 7, ... }.
PersistInsert ==
    /\ pfPc = "insert"
    /\ \E resp \in Responses, reached \in BOOLEAN :
          LET lost == resp = 0 /\ reached
              applies == ResponseOk(resp) \/ lost
              row == [forecast_date |-> forecastDateIso, target_day |-> pfIx,
                      call |-> pfCalls]
          IN  /\ lost => pfLost < MaxLost
              /\ pfLost' = IF lost THEN pfLost + 1 ELSE pfLost
              /\ bookingForecasts' = IF applies THEN InsertRow(bookingForecasts, row)
                                      ELSE bookingForecasts
              /\ IF ~FnThrows(resp)
                 THEN /\ pfAttempt' = 0
                      /\ IF pfIx < ForecastDays
                         THEN pfIx' = pfIx + 1 /\ pfPc' = "insert" /\ pfResult' = pfResult
                         ELSE pfIx' = pfIx /\ pfPc' = "idle" /\ pfResult' = "returned"
                 ELSE IF AfterCatch(pfAttempt) = "wait"
                 THEN /\ pfAttempt' = pfAttempt + 1
                      /\ UNCHANGED <<pfIx, pfPc, pfResult>>
                 ELSE /\ pfPc' = "idle"
                      /\ pfResult' = "threw"
                      /\ UNCHANGED <<pfIx, pfAttempt>>
    /\ UNCHANGED <<pfCalls, now, forecastDateIso, latest>>
    /\ UNCHANGED <<migVars, dualVars, retryVars, encVars, fcVars, mdVars, wpVars, cnVars, anVars, rtVars>>

\* getLatestForecastFromQuestDB, between two persistForecast calls.
GetLatestForecast ==
    /\ pfPc = "idle"
    /\ latest = NotRead
    /\ latest' = [st |-> "read", rows |-> LatestRows(bookingForecasts)]
    /\ UNCHANGED <<pfPc, pfCalls, now, forecastDateIso, pfIx, pfAttempt, pfLost,
                   pfResult, bookingForecasts>>
    /\ UNCHANGED <<migVars, dualVars, retryVars, encVars, fcVars, mdVars, wpVars, cnVars, anVars, rtVars>>

PersistNext == PersistForecastCall \/ PersistInsert \/ GetLatestForecast

InitPersist == MigIdle /\ DualIdle /\ RetryIdle /\ EncIdle /\ FcIdle /\ PfIdle /\ ModesIdle /\ WriteIdle /\ ConnIdle /\ AnalyzeIdle /\ RunIdle

SpecPersist == InitPersist /\ [][PersistNext]_vars

\* --------------------------------------------- the transport modes at work

\* The batch goes through the streaming write.
SaveThroughILP ==
    /\ ilpSave = NotSaved
    /\ ilpSave' = SaveStreaming(saveInput)
    /\ UNCHANGED <<saveInput, httpSave>>
    /\ UNCHANGED <<migVars, dualVars, retryVars, encVars, fcVars, pfVars, wpVars, cnVars, anVars, rtVars>>

\* The same batch goes through the query execution.
SaveThroughHTTP ==
    /\ httpSave = NotSaved
    /\ httpSave' = SaveQuery(saveInput)
    /\ UNCHANGED <<saveInput, ilpSave>>
    /\ UNCHANGED <<migVars, dualVars, retryVars, encVars, fcVars, pfVars, wpVars, cnVars, anVars, rtVars>>

ModesNext == SaveThroughILP \/ SaveThroughHTTP

InitModes == MigIdle /\ DualIdle /\ RetryIdle /\ EncIdle /\ FcIdle /\ PfIdle /\ ModesInit /\ WriteIdle /\ ConnIdle /\ AnalyzeIdle /\ RunIdle

SpecModes == InitModes /\ [][ModesNext]_vars

\* ---------------------------- the write paths of the query endpoint at work

\* The write paths that go through /exec: QuestDBServiceHTTP's two writers,
\* BookingsAnalyticsService's two, TrafficAnalyticsService's two.
WritePaths == {"saveTrafficData", "pushToQuestDB", "persistDailyCounts",
               "persistForecast", "storeTrafficAnalyses", "storeForecast"}

\* The CREATE TABLE IF NOT EXISTS statements a path sends first, in order.
DdlOf(path) ==
    CASE path \in {"saveTrafficData", "pushToQuestDB"}
            -> <<"traffic_analytics", "route_weekly_summary">>
      [] path \in {"persistDailyCounts", "persistForecast"}
            -> <<"booking_daily_counts", "booking_forecasts">>
      [] path = "storeTrafficAnalyses" -> <<"route_traffic_analysis">>
      [] path = "storeForecast" -> <<"route_traffic_forecasts">>

\* The table a path inserts into.
InsertTableOf(path) ==
    CASE path = "saveTrafficData" -> "traffic_analytics"
      [] path = "pushToQuestDB" -> "route_weekly_summary"
      [] path = "persistDailyCounts" -> "booking_daily_counts"
      [] path = "persistForecast" -> "booking_forecasts"
      [] path = "storeTrafficAnalyses" -> "route_traffic_analysis"
      [] path = "storeForecast" -> "route_traffic_forecasts"

\* execQuestDB sends through withRetry; executeQuery and executeHttpQuery
\* send once.
PathRetries(path) == path \in {"persistDailyCounts", "persistForecast"}

\* QuestDBServiceHTTP builds one INSERT for the whole batch.
OneInsert(path) == path \in {"saveTrafficData", "pushToQuestDB"}

\* What the store does with a statement it received.
ApplyCreate(tbl, t) == IF tbl[t] = -1 THEN [tbl EXCEPT ![t] = 0] ELSE tbl
ApplyInsert(tbl, t, n) == [tbl EXCEPT ![t] = @ + n]

AfterStatementGoOn(path, attempt, threw, more) == IF more THEN "more" ELSE "done"

\* Where the invocation goes after a statement: a thrown send is repeated
\* under withRetry while attempts remain and ends the invocation otherwise;
\* an answered one leads to the next statement.
AfterStatement(path, attempt, threw, more) ==
    IF threw
    THEN IF PathRetries(path) /\ AfterCatch(attempt) = "wait" THEN "again" ELSE "throw"
    ELSE IF more THEN "more" ELSE "done"

\* One entry of the statement log.
Stmt(kind, t, threw, before, after) ==
    [kind |-> kind, table |-> t, ok |-> ~threw, before |-> before, after |-> after]

\* A write path is invoked with something to write: n records (one INSERT
\* each, or one INSERT for the batch); persistDailyCounts may have no day.
WriteInvoke ==
    /\ writePath = NoInvocation
    /\ \E path \in WritePaths, n \in 0..MaxInserts :
          /\ n = 0 => path = "persistDailyCounts"
          /\ writePath' = [path |-> path, pc |-> "ddl", step |-> 1,
                           left |-> IF OneInsert(path) THEN 1 ELSE n,
                           attempt |-> 0]
    /\ stmtLog' = <<>>
    /\ UNCHANGED tables
    /\ UNCHANGED <<migVars, dualVars, retryVars, encVars, fcVars, pfVars, mdVars, cnVars, anVars, rtVars>>

\* The next CREATE TABLE IF NOT EXISTS is sent; the store applies it when it
\* answers 2xx, and also when its answer is lost.
SendDdl ==
    /\ writePath.pc = "ddl"
    /\ \E resp \in Responses, reached \in BOOLEAN :
          LET path == writePath.path
              t == DdlOf(path)[writePath.step]
              taken == ResponseOk(resp) \/ (resp = 0 /\ reached)
              after == IF taken THEN ApplyCreate(tables, t) ELSE tables
              last == writePath.step = Len(DdlOf(path))
              next == AfterStatement(path, writePath.attempt, FnThrows(resp),
                                     ~last \/ writePath.left > 0)
          IN  /\ tables' = after
              /\ stmtLog' = Append(stmtLog, Stmt("create", t, FnThrows(resp), tables[t], after[t]))
              /\ writePath' =
                    CASE next = "again" -> [writePath EXCEPT !.attempt = @ + 1]
                      [] next = "more" /\ ~last ->
                            [writePath EXCEPT !.step = @ + 1, !.attempt = 0]
                      [] next = "more" /\ last ->
                            [writePath EXCEPT !.pc = "insert", !.attempt = 0]
                      [] OTHER -> [writePath EXCEPT !.pc = "idle"]
    /\ UNCHANGED <<migVars, dualVars, retryVars, encVars, fcVars, pfVars, mdVars, cnVars, anVars, rtVars>>

\* The next INSERT is sent; the store cannot accept it into a table that
\* does not exist.
SendInsert ==
    /\ writePath.pc = "insert"
    /\ \E resp \in Responses, reached \in BOOLEAN :
          LET path == writePath.path
              t == InsertTableOf(path)
              exists == tables[t] # -1
              taken == exists /\ (ResponseOk(resp) \/ (resp = 0 /\ reached))
              after == IF taken THEN ApplyInsert(tables, t, 1) ELSE tables
              next == AfterStatement(path, writePath.attempt, FnThrows(resp),
                                     writePath.left > 1)
          IN  /\ ResponseOk(resp) => exists
              /\ tables' = after
              /\ stmtLog' = Append(stmtLog, Stmt("insert", t, FnThrows(resp), tables[t], after[t]))
              /\ writePath' =
                    CASE next = "again" -> [writePath EXCEPT !.attempt = @ + 1]
                      [] next = "more" -> [writePath EXCEPT !.left = @ - 1, !.attempt = 0]
                      [] OTHER -> [writePath EXCEPT !.pc = "idle"]
    /\ UNCHANGED <<migVars, dualVars, retryVars, encVars, fcVars, pfVars, mdVars, cnVars, anVars, rtVars>>

WriteNext == WriteInvoke \/ SendDdl \/ SendInsert

\* The store is new, or every table exists and holds a row of an earlier run.
WriteInit ==
    /\ writePath = NoInvocation
    /\ stmtLog = <<>>
    /\ \E rows0 \in {-1, 1} : tables = [t \in TableNames |-> rows0]

InitWrite == MigIdle /\ DualIdle /\ RetryIdle /\ EncIdle /\ FcIdle /\ PfIdle /\ ModesIdle /\ WriteInit /\ ConnIdle /\ AnalyzeIdle /\ RunIdle

SpecWrite == InitWrite /\ [][WriteNext]_vars

\* ---------------------------------------- the relational connection at work

\* The units of work that acquire and release the relational connection.
Units == {"processWeeklyAnalytics", "generateTrafficPredictions",
          "getRouteAnalyticsSummary", "getRouteTrafficSummary", "migrate"}

\* migrate() connects the client of its own QuestDBMigration object; the
\* others go through connect() / disconnect() of the shared QuestDBService.
OwnClient(unit) == unit = "migrate"

ServiceOf(unit) ==
    CASE unit \in {"processWeeklyAnalytics", "getRouteAnalyticsSummary"} -> "weekly"
      [] unit = "generateTrafficPredictions" -> "predictions"
      [] OTHER -> "traffic"

\* The client a unit of work holding r reaches: its own, or this.pgClient.
ClientOf(r, pg) == IF OwnClient(r.unit) THEN r.c ELSE pg[ServiceOf(r.unit)]

\* getRouteTrafficSummary awaits connect() before its try block.
ConnectInsideTry(unit) == unit # "getRouteTrafficSummary"

\* processWeeklyAnalytics reads through pgClient (getWeeklyAnalytics); the
\* others query the time-series store over HTTP.
QueriesPg(unit) == unit \in {"processWeeklyAnalytics", "migrate"}

Live == {"connecting", "open", "ending"}

\* After connect() returned or threw.
AfterConnect(unit, ok) ==
    IF ok THEN "work" ELSE IF ConnectInsideTry(unit) THEN "finally" ELSE "idle"

AfterWorkNoFinally(threw) == IF threw THEN "idle" ELSE "finally"

\* After the body of the try block returned or threw: the finally block.
AfterWork(threw) == "finally"

Finish(r, outcome) ==
    [r EXCEPT !.pc = "idle", !.done = @ + 1, !.c = 0,
              !.outcome = IF r.outcome = "none" THEN outcome ELSE r.outcome]

Fail(r, next, outcome) ==
    IF next = "idle" THEN Finish(r, outcome)
    ELSE [r EXCEPT !.pc = next, !.outcome = outcome]

\* What follows connect() once it has returned, without another await in
\* between: getWeeklyAnalytics throws 'Not connected to database' when
\* pgClient is null and sends its query to pgClient otherwise; migrate()
\* queries its own client; the other units send their query over HTTP.
Enter(r, pg, cl) ==
    LET c == ClientOf(r, pg)
    IN  IF ~QueriesPg(r.unit) THEN [r EXCEPT !.pc = "work", !.c = 0]
        ELSE IF c = 0
        THEN [r EXCEPT !.pc = AfterWork(TRUE), !.outcome = "not_connected"]
        ELSE [r EXCEPT !.pc = "work", !.c = c, !.badQuery = cl[c] # "open"]

\* A caller starts a unit of work, up to its first await that waits for the
\* outside: connect() returns at once when pgClient is set, else it creates a
\* client and awaits its connect().
StartUnit(p) ==
    /\ inv[p].pc = "idle"
    /\ inv[p].done < MaxUnits
    /\ \E unit \in Units :
          LET r == [NoUnit EXCEPT !.unit = unit, !.done = inv[p].done]
          IN  IF ~OwnClient(unit) /\ pgClient[ServiceOf(unit)] # 0
              THEN /\ inv' = [inv EXCEPT ![p] = Enter(r, pgClient, clients)]
                   /\ UNCHANGED <<pgClient, clients>>
              ELSE /\ clients' = Append(clients, "connecting")
                   /\ pgClient' = IF OwnClient(unit) THEN pgClient
                                  ELSE [pgClient EXCEPT ![ServiceOf(unit)] = Len(clients) + 1]
                   /\ inv' = [inv EXCEPT ![p] = [r EXCEPT !.pc = "connect_wait",
                                                          !.c = Len(clients) + 1]]
    /\ UNCHANGED <<migVars, dualVars, retryVars, encVars, fcVars, pfVars, mdVars, wpVars, anVars, rtVars>>

\* The client's connect() settles: it can only succeed on a client nobody has
\* ended meanwhile; on failure connect() sets pgClient to null and throws.
ConnectSettles(p) ==
    /\ inv[p].pc = "connect_wait"
    /\ \E ok \in BOOLEAN :
          LET r == inv[p]
              good == ok /\ clients[r.c] = "connecting"
          IN  /\ clients' = IF clients[r.c] = "connecting"
                            THEN [clients EXCEPT ![r.c] = IF good THEN "open" ELSE "failed"]
                            ELSE clients
              /\ pgClient' = IF good \/ OwnClient(r.unit) THEN pgClient
                              ELSE [pgClient EXCEPT ![ServiceOf(r.unit)] = 0]
              /\ inv' = [inv EXCEPT ![p] =
                            IF good THEN Enter(r, pgClient', clients')
                            ELSE Fail(r, AfterConnect(r.unit, FALSE), "connect_failed")]
    /\ UNCHANGED <<migVars, dualVars, retryVars, encVars, fcVars, pfVars, mdVars, wpVars, anVars, rtVars>>

\* The query of the unit settles: it succeeds or throws; one sent to
\* a client that is closed by now is rejected.
Work(p) ==
    /\ inv[p].pc = "work"
    /\ \E ok \in BOOLEAN :
          LET r == inv[p]
              good == ok /\ (r.c # 0 => clients[r.c] = "open")
          IN  inv' = [inv EXCEPT ![p] =
                IF good THEN [r EXCEPT !.pc = AfterWork(FALSE)]
                ELSE [r EXCEPT !.pc = AfterWork(TRUE), !.outcome = "query_failed"]]
    /\ UNCHANGED <<pgClient, clients>>
    /\ UNCHANGED <<migVars, dualVars, retryVars, encVars, fcVars, pfVars, mdVars, wpVars, anVars, rtVars>>

\* finally: disconnect() up to its await: nothing to do when pgClient is null,
\* else pgClient.end() is awaited. migrate() ends its own client.
StartDisconnect(p) ==
    /\ inv[p].pc = "finally"
    /\ LET r == inv[p]
           c == ClientOf(r, pgClient)
       IN  IF c = 0
           THEN /\ inv' = [inv EXCEPT ![p] = Finish(r, "returned")]
                /\ UNCHANGED clients
           ELSE /\ clients' = [clients EXCEPT ![c] = IF @ \in Live THEN "ending" ELSE @]
                /\ inv' = [inv EXCEPT ![p] = [r EXCEPT !.pc = "end_wait", !.c = c]]
    /\ UNCHANGED pgClient
    /\ UNCHANGED <<migVars, dualVars, retryVars, encVars, fcVars, pfVars, mdVars, wpVars, anVars, rtVars>>

\* end() has resolved: this.pgClient = null.
EndSettles(p) ==
    /\ inv[p].pc = "end_wait"
    /\ clients' = [clients EXCEPT ![inv[p].c] = IF @ = "ending" THEN "ended" ELSE @]
    /\ pgClient' = IF OwnClient(inv[p].unit) THEN pgClient
                    ELSE [pgClient EXCEPT ![ServiceOf(inv[p].unit)] = 0]
    /\ inv' = [inv EXCEPT ![p] = Finish(inv[p], "returned")]
    /\ UNCHANGED <<migVars, dualVars, retryVars, encVars, fcVars, pfVars, mdVars, wpVars, anVars, rtVars>>

ConnNext ==
    \E p \in DOMAIN inv :
        StartUnit(p) \/ ConnectSettles(p) \/ Work(p) \/ StartDisconnect(p) \/ EndSettles(p)

\* One caller at a time.
ConnInit == pgClient = NoClient /\ clients = <<>> /\ inv = [p \in {1} |-> NoUnit]

\* Two callers whose units of work may overlap.
ConcInit == pgClient = NoClient /\ clients = <<>> /\ inv = [p \in {1, 2} |-> NoUnit]

InitConn == MigIdle /\ DualIdle /\ RetryIdle /\ EncIdle /\ FcIdle /\ PfIdle /\ ModesIdle /\ WriteIdle /\ ConnInit /\ AnalyzeIdle /\ RunIdle

SpecConn == InitConn /\ [][ConnNext]_vars

InitConc == MigIdle /\ DualIdle /\ RetryIdle /\ EncIdle /\ FcIdle /\ PfIdle /\ ModesIdle /\ WriteIdle /\ ConcInit /\ AnalyzeIdle /\ RunIdle

SpecConc == InitConc /\ [][ConnNext]_vars

\* --------------------------------------------- the traffic analysis at work

AnalyzeInit ==
    /\ leg \in Legs
    /\ analysis = NotAnalyzed

AnalyzeRouteTraffic ==
    /\ analysis = NotAnalyzed
    /\ analysis' = analyzeRouteTraffic(leg)
    /\ UNCHANGED leg
    /\ UNCHANGED <<migVars, dualVars, retryVars, encVars, fcVars, pfVars, mdVars, wpVars, cnVars, rtVars>>

InitAnalyze == MigIdle /\ DualIdle /\ RetryIdle /\ EncIdle /\ FcIdle /\ PfIdle /\ ModesIdle /\ WriteIdle /\ ConnIdle /\ AnalyzeInit /\ RunIdle

SpecAnalyze == InitAnalyze /\ [][AnalyzeRouteTraffic]_vars

\* ------------------------------------------ the traffic analytics run at work

\* The catch block of runTrafficAnalytics.
RunFailed(r, step) ==
    [r EXCEPT !.pc = "done", !.failedIn = step,
              !.result = [success |-> FALSE, routesAnalyzed |-> 0,
                          forecastsGenerated |-> 0]]

\* The two return statements of the try block.
RunReturned(r) ==
    [r EXCEPT !.pc = "done",
              !.result = [success |-> TRUE, routesAnalyzed |-> r.routes,
                          forecastsGenerated |-> r.forecastsGenerated]]

\* After storeTrafficAnalyses: forecasts only if requested.
AfterStore(r) ==
    IF r.generateForecasts THEN [r EXCEPT !.pc = "forecast_connect"]
    ELSE RunReturned(r)

\* After analyzeCurrentTraffic: storeTrafficAnalyses returns at once when no
\* route could be analysed.
AfterAnalyze(r) ==
    IF r.analyses = 0 THEN AfterStore(r) ELSE [r EXCEPT !.pc = "store_connect"]

AfterRouteForecastAbort(r, threw) ==
    IF threw THEN RunFailed(r, "forecast")
    ELSE IF r.i + 1 < r.routes THEN [r EXCEPT !.i = @ + 1]
    ELSE RunReturned(r)

\* generateAndStoreForecasts: the catch inside the loop only warns.
AfterRouteForecast(r, threw) ==
    IF r.i + 1 < r.routes THEN [r EXCEPT !.i = @ + 1] ELSE RunReturned(r)

\* runTrafficAnalytics up to the answer of fetchActiveRoutes.
RunStart ==
    /\ run = NoRun
    /\ \E gen \in BOOLEAN, key \in BOOLEAN, fetchOk \in BOOLEAN, n \in 0..MaxRoutes :
          LET r == [NoRun EXCEPT !.generateForecasts = gen, !.apiKey = key,
                                 !.routes = IF fetchOk THEN n ELSE 0]
          IN  run' = IF ~fetchOk THEN RunFailed(r, "fetch")
                     ELSE IF n = 0 THEN RunReturned(r)
                     ELSE IF ~key THEN RunFailed(r, "analyze")
                     ELSE [r EXCEPT !.pc = "analyze"]
    /\ runLog' = <<"fetch">>
    /\ UNCHANGED <<migVars, dualVars, retryVars, encVars, fcVars, pfVars, mdVars, wpVars, cnVars, anVars>>

\* analyzeCurrentTraffic, one route of Promise.allSettled: analyzeRouteTraffic
\* resolves with an analysis or with null, or rejects.
AnalyzeRoute ==
    /\ run.pc = "analyze"
    /\ \E outcome \in {"analysis", "null", "rejected"} :
          LET r == [run EXCEPT !.i = @ + 1,
                               !.analyses = IF outcome = "analysis" THEN @ + 1 ELSE @]
          IN  run' = IF r.i < r.routes THEN r ELSE AfterAnalyze([r EXCEPT !.i = 0])
    /\ runLog' = Append(runLog, "analyze")
    /\ UNCHANGED <<migVars, dualVars, retryVars, encVars, fcVars, pfVars, mdVars, wpVars, cnVars, anVars>>

\* storeTrafficAnalyses: connect(), awaited before the try block.
StoreConnect ==
    /\ run.pc = "store_connect"
    /\ \E ok \in BOOLEAN :
          run' = IF ok THEN [run EXCEPT !.pc = "store_ddl"] ELSE RunFailed(run, "store")
    /\ UNCHANGED runLog
    /\ UNCHANGED <<migVars, dualVars, retryVars, encVars, fcVars, pfVars, mdVars, wpVars, cnVars, anVars>>

\* storeTrafficAnalyses: CREATE TABLE IF NOT EXISTS through executeHttpQuery,
\* which throws unless the response is ok.
StoreDdl ==
    /\ run.pc = "store_ddl"
    /\ \E resp \in Responses :
          run' = IF resp # 0 /\ ResponseOk(resp) THEN [run EXCEPT !.pc = "store_insert"]
                 ELSE RunFailed(run, "store")
    /\ runLog' = Append(runLog, "store_ddl")
    /\ UNCHANGED <<migVars, dualVars, retryVars, encVars, fcVars, pfVars, mdVars, wpVars, cnVars, anVars>>

\* storeTrafficAnalyses: one INSERT per analysis.
StoreInsert ==
    /\ run.pc = "store_insert"
    /\ \E resp \in Responses :
          LET r == [run EXCEPT !.stored = @ + 1]
          IN  run' = IF ~(resp # 0 /\ ResponseOk(resp)) THEN RunFailed(run, "store")
                     ELSE IF r.stored < r.analyses THEN r
                     ELSE AfterStore(r)
    /\ runLog' = Append(runLog, "store_insert")
    /\ UNCHANGED <<migVars, dualVars, retryVars, encVars, fcVars, pfVars, mdVars, wpVars, cnVars, anVars>>

\* generateAndStoreForecasts: connect(), awaited before the try block.
ForecastConnect ==
    /\ run.pc = "forecast_connect"
    /\ \E ok \in BOOLEAN :
          run' = IF ok THEN [run EXCEPT !.pc = "forecast", !.i = 0]
                 ELSE RunFailed(run, "forecast_connect")
    /\ UNCHANGED runLog
    /\ UNCHANGED <<migVars, dualVars, retryVars, encVars, fcVars, pfVars, mdVars, wpVars, cnVars, anVars>>

\* generateAndStoreForecasts, one route: generateRouteForecast throws, returns
\* null (no history) or a forecast, and storeForecast stores it or throws.
ForecastRoute ==
    /\ run.pc = "forecast"
    /\ \E outcome \in {"query_throws", "null", "stored", "store_throws"} :
          LET r == [run EXCEPT !.forecastsGenerated =
                                   IF outcome = "stored" THEN @ + 1 ELSE @]
          IN  run' = AfterRouteForecast(r, outcome \in {"query_throws", "store_throws"})
    /\ runLog' = Append(runLog, "forecast")
    /\ UNCHANGED <<migVars, dualVars, retryVars, encVars, fcVars, pfVars, mdVars, wpVars, cnVars, anVars>>

RunNext ==
    \/ RunStart
    \/ AnalyzeRoute
    \/ StoreConnect
    \/ StoreDdl
    \/ StoreInsert
    \/ ForecastConnect
    \/ ForecastRoute

RunInit == run = NoRun /\ runLog = <<>>

InitRun == MigIdle /\ DualIdle /\ RetryIdle /\ EncIdle /\ FcIdle /\ PfIdle /\ ModesIdle /\ WriteIdle /\ ConnIdle /\ AnalyzeIdle /\ RunInit

SpecRun == InitRun /\ [][RunNext]_vars

\* ------------------------------------------------------------- properties

Ceil(n, b) == (n + b - 1) \div b

LastFetch == fetchLog[Len(fetchLog)]

\* The fetch at position i of the log returned between 1 and batchSize-1 rows.
ShortFetch(i) == fetchLog[i][2] >= 1 /\ fetchLog[i][2] < batchSize

\* C1: a dry run issues no write to the time-series destination (no batch
\* write call, no request, no weekly-rollup request, no stored row), and the
\* counted total is the count of the source at count time whether or not the
\* run is a dry run.
C1_DryRunNoWrites ==
    /\ dryRun => /\ nWrites = 0
                 /\ tsRequests = 0
                 /\ weeklyRequests = 0
                 /\ destRows = 0
                 /\ lastWrite = NoWrite
    /\ countedAt # -1 =>
          totalRecords = IF variant = "sql" THEN countedAt ELSE countedAt + srcOther

\* A dry run that went through several batches and ended well.
C1_Witness ==
    /\ dryRun
    /\ pc = "done"
    /\ result = "ok"
    /\ totalRecords >= 3
    /\ Len(fetchLog) >= 2

\* C2: when the relational write of saveTrafficDataDual throws, no request of
\* that call reaches the time-series gateway, and the call fails with the
\* relational error.
C2_RelationalThrowSkipsTimeseries ==
    callError = "relational" =>
        /\ callRequests = 0
        /\ callResp = -1
        /\ dpc \in {"thrown", "idle"}
        /\ (dpc = "idle" => callResult = "failed")

\* A settled call whose relational write threw, with the time-series sink
\* configured and records to write.
C2_Witness ==
    /\ callError = "relational"
    /\ dpc = "idle"
    /\ callResult = "failed"
    /\ qdbConfigured
    /\ dataLen > 0

\* C3: a settled saveTrafficDataDual call whose relational write succeeded and
\* whose time-series write failed has failed, with the relational records
\* still stored; a call whose two sinks succeeded has succeeded.
C3_TimeseriesFailureFailsCall ==
    (dpc = "idle" /\ calls > 0) =>
        /\ (relWritten > 0 /\ callTsFailed) =>
              (callResult = "failed" /\ relRows = relBefore + relWritten)
        /\ (callError = "none" /\ ~callTsFailed) => callResult = "ok"

\* C4: a line-protocol write call of the gateway (saveTrafficDataToQuestDB or
\* pushToQuestDB) that returned without throwing was answered 2xx.
C4_WriteReturnsOnlyOn2xx ==
    (lastWrite.op \in {"save", "push"} /\ lastWrite.n > 0 /\ ~lastWrite.threw) =>
        (lastWrite.resp # -1 /\ ResponseOk(lastWrite.resp))

\* C5: once the fetch or the write of the batch at some offset has failed, no
\* fetch is issued at a later offset, the weekly-rollup phase is not entered,
\* and the run ends in failure.
C5_FailureAborts ==
    failedAt # -1 =>
        /\ \A i \in 1..Len(fetchLog) : fetchLog[i][1] <= failedAt
        /\ pc \notin {"weekly_range", "weekly_week"}
        /\ weeklyRequests = 0
        /\ (pc = "done" => result = "failed")

\* C6: a real run that ended well over an unchanged source of N >= 1 matching
\* rows, with batch size B >= 1, issued exactly ceil(N/B) fetches, the i-th at
\* offset (i-1)*B returning min(B, N-(i-1)*B) rows, and ceil(N/B) writes.
C6_ExactFetchesAndWrites ==
    (pc = "done" /\ result = "ok" /\ ~dryRun /\ ~srcChanged
        /\ batchSize >= 1 /\ countedAt >= 1) =>
        /\ Len(fetchLog) = Ceil(countedAt, batchSize)
        /\ \A i \in 1..Len(fetchLog) :
              fetchLog[i] = <<(i - 1) * batchSize,
                              Min(batchSize, countedAt - (i - 1) * batchSize)>>
        /\ nWrites = Ceil(countedAt, batchSize)

\* C7 (as claimed): in the SQL migrator, after a fetch that returned between 1
\* and batchSize-1 rows no further fetch is issued.
C7_ShortFetchIsLast ==
    variant = "sql" => \A i \in 1..(Len(fetchLog) - 1) : ~ShortFetch(i)

\* C7 (amended): the loop is left only on an empty fetch or with the offset at
\* or beyond the counted total, never because a fetch was short: a fetch is
\* issued only at an offset below the counted total, every fetch that is
\* followed by another returned at least one row, and when the loop has been
\* left after a non-empty fetch the offset has reached the counted total.
C7_LoopStopsOnTotalOrEmpty ==
    /\ \A i \in 1..(Len(fetchLog) - 1) :
          fetchLog[i][2] >= 1 /\ fetchLog[i][1] + batchSize < totalRecords
    /\ (pc = "rows_done" /\ Len(fetchLog) > 0 /\ LastFetch[2] >= 1) =>
          offset >= totalRecords
    /\ (pc = "fetch") => offset < totalRecords

\* A short fetch that was followed by another fetch.
C7_Witness ==
    \E i \in 1..(Len(fetchLog) - 1) : ShortFetch(i)

\* C8: the offset is a multiple of batchSize reached by whole steps from 0,
\* and in a real run it was never advanced past a batch whose write failed.
C8_OffsetAdvance ==
    /\ \E k \in 0..Len(fetchLog) : offset = k * batchSize
    /\ ~dryRun => ~advancedBad

\* C9: every run settles, and a fetch that returned zero rows is the last
\* fetch of the run, also with the offset below the counted total.
C9_Terminates ==
    /\ <>(pc = "done")
    /\ [](\A i \in 1..(Len(fetchLog) - 1) : fetchLog[i][2] # 0)

\* A settled run whose loop ended on an empty fetch below the counted total,
\* while other processes changed the source.
C9_Witness ==
    /\ pc = "done"
    /\ srcChanged
    /\ Len(fetchLog) >= 2
    /\ LastFetch[2] = 0
    /\ offset < totalRecords

\* C10 (as claimed): when the loop of the SQL migrator has been left with more
\* matching rows in the source than were counted, it was left on an empty
\* fetch.
C10_NotCutOffAtTotal ==
    (variant = "sql" /\ pc = "rows_done" /\ srcMatch > countedAt
        /\ Len(fetchLog) > 0) =>
        LastFetch[2] = 0

\* C10 (amended): the counted total bounds the offsets fetched: every fetch is
\* issued at an offset below the counted total, so with batch size B >= 1 at
\* most ceil(total/B) fetches are issued however many rows are inserted.
C10_TotalBoundsOffsets ==
    /\ \A i \in 1..Len(fetchLog) : fetchLog[i][1] < totalRecords
    /\ batchSize >= 1 => Len(fetchLog) <= Ceil(totalRecords, batchSize)

\* The loop was left at the counted total after a non-empty fetch while rows
\* inserted during the run are still beyond the offset.
C10_Witness ==
    /\ pc = "rows_done"
    /\ srcChanged
    /\ srcMatch > countedAt
    /\ Len(fetchLog) > 0
    /\ LastFetch[2] >= 1
    /\ srcMatch > offset

\* C11: in every migrator variant, the counted total is the number of source
\* rows matching the filters at the moment of the count query.
C11_CountMatchesFilters ==
    countedAt # -1 => totalRecords = countedAt

\* C12: a run whose count query returned zero issues no batch fetch and
\* writes nothing to the time-series destination: no batch write, no request,
\* no weekly-summary request, no stored row.
C12_ZeroCountWritesNothing ==
    (countedAt # -1 /\ totalRecords = 0) =>
        /\ Len(fetchLog) = 0
        /\ totalMigrated = 0
        /\ nWrites = 0
        /\ tsRequests = 0
        /\ destRows = 0
        /\ weeklyRequests = 0
        /\ lastWrite = NoWrite

\* C13: a run whose batch size is not a positive integer is rejected before
\* any work: no count query, no batch fetch, no destination write, and the
\* run does not end well.
C13_BadBatchSizeRejected ==
    batchSize < 1 =>
        /\ countedAt = -1
        /\ pc \notin {"count", "fetch", "write", "advance"}
        /\ Len(fetchLog) = 0
        /\ nWrites = 0
        /\ weeklyRequests = 0
        /\ result # "ok"

\* The fn invocation at position k of the log failed.
FailedAttempt(k) == FnThrows(respLog[k])

\* C14: withRetry invokes the operation at most 3 times; every invocation
\* before the last one failed, and a call that returned returns the result of
\* its last invocation; the k-th wait is 250 ms x k and there are at most two
\* waits, one after each failed attempt but the third; a call that threw made
\* 3 invocations, all failed, and throws the error of the third; and every
\* call settles.
C14_WithRetryContract ==
    /\ [](UsesRetry(retryOp) =>
            /\ Len(respLog) <= Attempts
            /\ \A k \in 1..(Len(respLog) - 1) : FailedAttempt(k)
            /\ Len(waits) <= Attempts - 1
            /\ \A k \in 1..Len(waits) : waits[k] = DelayMs * k /\ FailedAttempt(k)
            /\ retryPc = "attempt" => Len(waits) = Len(respLog)
            /\ retryPc = "returned" =>
                  /\ ~FailedAttempt(Len(respLog))
                  /\ retValue = respLog[Len(respLog)]
                  /\ Len(waits) = Len(respLog) - 1
                  /\ thrownError = <<>>
            /\ retryPc = "thrown" =>
                  /\ Len(respLog) = Attempts
                  /\ FailedAttempt(Attempts)
                  /\ Len(waits) = Attempts - 1
                  /\ thrownError = <<Attempts, respLog[Attempts]>>
                  /\ retValue = -1)
    /\ (retryPc = "attempt") ~> (retryPc \in {"returned", "thrown"})

\* A withRetry call that threw after three different failures.
C14_Witness ==
    /\ UsesRetry(retryOp)
    /\ retryPc = "thrown"
    /\ waits = <<DelayMs, DelayMs * 2>>
    /\ respLog[1] # respLog[3]
    /\ thrownError[2] = respLog[3]

\* C15: a write statement sent through the query endpoint is sent once: a
\* failed write is not sent again, its error is thrown after the one request,
\* and the statement takes effect at most once.
C15_WriteSentOnce ==
    IsWrite(retryOp) =>
        /\ Len(respLog) <= 1
        /\ Len(waits) = 0
        /\ applied <= 1

\* C16: on every read path a query whose request failed with a transport
\* error is tried again: a read call that met a transport error does not
\* throw before 3 requests were sent, with waits of 250 ms and 500 ms.
C16_ReadsRetried ==
    (retryOp \in RetryOps /\ ~IsWrite(retryOp) /\ retryPc = "thrown"
        /\ \E k \in 1..Len(respLog) : respLog[k] = 0) =>
        /\ Len(respLog) = Attempts
        /\ waits = <<DelayMs, DelayMs * 2>>

Abs(n) == IF n < 0 THEN -n ELSE n

\* x is a whole number.
IsInteger(x) == x.k = "num" /\ x.v % Scale = 0

\* x is a finite number.
IsFinite(x) == x.k = "num"

\* C17: both encoders write the absolute value of an integer id into the tag
\* route_id: createILPLine and the line of saveTrafficDataToQuestDB alike.
C17_NegativeIdAbsolute ==
    /\ (weeklyLine.st = "line" /\ IsInteger(weeklyRec.route_id)) =>
          weeklyLine.tag = Num(Abs(weeklyRec.route_id.v))
    /\ (trafficLine.st = "line" /\ IsInteger(trafficRec.routeId)) =>
          trafficLine.tag = Num(Abs(trafficRec.routeId.v))

\* The value is NaN, undefined or null.
InvalidValue(x) == x.k \in {"nan", "undef", "null"}

\* Every member of the weekly record but field f is well formed.
WeeklyValidBut(f) ==
    /\ IsInteger(weeklyRec.route_id) /\ weeklyRec.route_id.v > 0
    /\ DateParses(weeklyRec.week_start)
    /\ \A g \in WeeklyFields \ {f} : IsFinite(weeklyRec[g])

\* Every member of the traffic record but field f is well formed.
TrafficValidBut(f) ==
    /\ IsInteger(trafficRec.routeId) /\ trafficRec.routeId.v > 0
    /\ DateParses(trafficRec.timestamp)
    /\ \A g \in TrafficFields \ {f} : IsFinite(trafficRec[g])

\* C18: a record with one optional numeric field NaN, undefined or null and
\* everything else valid is encoded to a line without that field and with every
\* other field, by createILPLine and by saveTrafficDataToQuestDB.
C18_InvalidOptionalOmitted ==
    /\ \A f \in OptionalFields :
          (weeklyLine # NoLine /\ InvalidValue(weeklyRec[f]) /\ WeeklyValidBut(f)) =>
              /\ weeklyLine.st = "line"
              /\ weeklyLine.fields[f] = Absent
              /\ \A g \in WeeklyFields \ {f} : IsFinite(weeklyLine.fields[g])
    /\ \A f \in TrafficFields :
          (trafficLine # NoLine /\ InvalidValue(trafficRec[f]) /\ TrafficValidBut(f)) =>
              /\ trafficLine.st = "line"
              /\ trafficLine.fields[f] = Absent
              /\ \A g \in TrafficFields \ {f} : IsFinite(trafficLine.fields[g])

\* C19: every numeric field value of an emitted line or VALUES tuple is
\* finite, and NaN or an infinity in an optional field of an otherwise valid
\* weekly record does not make createILPLine throw.
C19_EmittedValuesFinite ==
    /\ weeklyLine.st = "line" =>
          \A f \in WeeklyFields : weeklyLine.fields[f] = Absent \/ IsFinite(weeklyLine.fields[f])
    /\ trafficLine.st = "line" =>
          \A f \in TrafficFields : IsFinite(trafficLine.fields[f])
    /\ trafficValues.st = "line" =>
          \A f \in TrafficFields : IsFinite(trafficValues.fields[f])
    /\ \A f \in OptionalFields :
          (weeklyLine # NoLine /\ weeklyRec[f].k \in {"nan", "inf", "ninf"}
              /\ WeeklyValidBut(f)) => weeklyLine.st = "line"

\* C20: createILPLine encodes every record whose id is a non-negative
\* integer, 0 included, with a valid week_start, a numeric sample_count and
\* valid optional fields.
C20_NonNegativeIdAccepted ==
    (weeklyLine # NoLine
        /\ IsInteger(weeklyRec.route_id) /\ weeklyRec.route_id.v >= 0
        /\ DateParses(weeklyRec.week_start)
        /\ \A g \in WeeklyFields : IsFinite(weeklyRec[g])) =>
        /\ weeklyLine.st = "line"
        /\ weeklyLine.tag = weeklyRec.route_id

\* C21: every line createILPLine produces carries sample_count as a whole
\* number with the suffix i; a record whose sample_count is no number makes
\* the encoder throw; and the encoder never fails for want of valid fields.
C21_SampleCountNeverOmitted ==
    /\ weeklyLine.st = "line" =>
          /\ IsInteger(weeklyLine.fields["sample_count"])
          /\ FieldSuffix("sample_count") = "i"
    /\ (weeklyLine # NoLine /\ ~IsFinite(weeklyRec.sample_count)) =>
          weeklyLine.st = "threw"
    /\ weeklyLine.err # "no_fields"

\* createILPLine threw on a record whose only flaw is a NaN sample_count.
C21_Witness ==
    /\ weeklyLine.st = "threw"
    /\ weeklyLine.err = "value"
    /\ weeklyRec.sample_count = NaN
    /\ WeeklyValidBut("sample_count")

\* The weekly record is valid: a non-negative whole id, a week_start that is
\* a date, and a finite number in every field.
ValidWeekly ==
    /\ IsInteger(weeklyRec.route_id) /\ weeklyRec.route_id.v >= 0
    /\ DateParses(weeklyRec.week_start)
    /\ \A g \in WeeklyFields : IsFinite(weeklyRec[g])

\* The value of field f in the line is within half a unit of the last digit
\* kept (10^-p) of its input.
WithinHalfStep(f, p) ==
    2 * Abs(weeklyLine.fields[f].v - weeklyRec[f].v) <= Scale \div Pow10(p)

PointsOf(hour) == IF HasRow(histRows, hour) THEN RowOf(histRows, hour).data_points ELSE 0

InConfidenceRange(c) == 0 <= c /\ c <= Hundredths(95)

\* C23: at each of the three forecasting sites every confidence lies in
\* [0, 0.95], no prediction backed by fewer samples has a higher confidence
\* than one backed by more, and no smaller sample count would have given a
\* higher confidence than the one produced.
C23_ConfidenceMonotoneInRange ==
    /\ forecast.st = "done" =>
          \A i \in 1..ForecastDays :
              /\ InConfidenceRange(forecast.points[i].confidence)
              /\ \A j \in 1..ForecastDays :
                    forecast.points[j].n <= forecast.points[i].n
                        => forecast.points[j].confidence <= forecast.points[i].confidence
              /\ \A m \in 0..forecast.points[i].n :
                    BookingsConfidence(m) <= forecast.points[i].confidence
    /\ enhanced.st = "done" =>
          \A p \in DOMAIN enhanced.preds :
              /\ InConfidenceRange(enhanced.preds[p].confidence)
              /\ enhanced.by = "weekly" =>
                    /\ \A q \in DOMAIN enhanced.preds :
                          PointsOf(q[2]) <= PointsOf(p[2])
                              => enhanced.preds[q].confidence <= enhanced.preds[p].confidence
                    /\ \A m \in 0..PointsOf(p[2]) :
                          WeeklyConfidence(m > 0, m) <= enhanced.preds[p].confidence
    /\ routeForecast.st = "done" =>
          \A h \in Hours :
              /\ InConfidenceRange(routeForecast.preds[h].confidence)
              /\ \A g \in Hours :
                    PointsOf(g) <= PointsOf(h)
                        => routeForecast.preds[g].confidence <= routeForecast.preds[h].confidence
              /\ \A m \in 1..PointsOf(h) :
                    TrafficConfidence(m) <= routeForecast.preds[h].confidence

\* All three sites have answered for a route whose hours are backed by
\* different numbers of samples, one of them beyond the cap.
C23_Witness ==
    /\ forecast.st = "done"
    /\ enhanced.st = "done" /\ enhanced.by = "weekly"
    /\ routeForecast.st = "done"
    /\ \E g, h \in KeyHours :
          /\ 0 < PointsOf(g) /\ PointsOf(g) < PointsOf(h)
          /\ enhanced.preds[<<1, g>>].confidence < enhanced.preds[<<1, h>>].confidence
          /\ routeForecast.preds[g].confidence < routeForecast.preds[h].confidence
          /\ routeForecast.preds[h].confidence = Hundredths(95)

\* C24: in the weekly hour-of-day predictions, an hour with a historical row
\* of n >= 1 data points has confidence min(0.9, 0.3 + 0.1 n), and confidence
\* 0.3 goes only with a fallback density (an hour without a row).
C24_WeeklyConfidenceScales ==
    (enhanced.st = "done" /\ enhanced.by = "weekly") =>
        \A p \in DOMAIN enhanced.preds :
            /\ PointsOf(p[2]) >= 1 =>
                  enhanced.preds[p].confidence
                      = Min(Tenths(9), Tenths(3) + PointsOf(p[2]) * Tenths(1))
            /\ enhanced.preds[p].confidence = Tenths(3) => ~HasRow(histRows, p[2])

SumFrac(a, b) == Frac(a.num * b.den + b.num * a.den, a.den * b.den)

\* C25: each of the seven predictions is max(0, round(weekday average +
\* slope)), the slope added once whatever the day index, so that two forecast
\* days with the same weekday average get the same prediction.
C25_SlopeAppliedOnce ==
    forecast.st = "done" =>
        \A i \in 1..ForecastDays :
            /\ forecast.points[i].predicted_count
                  = Max(0, MathRound(SumFrac(forecast.points[i].base, forecast.slope)))
            /\ \A j \in 1..ForecastDays :
                  forecast.points[i].base.num * forecast.points[j].base.den
                        = forecast.points[j].base.num * forecast.points[i].base.den
                      => forecast.points[i].predicted_count = forecast.points[j].predicted_count

\* C26: for every history of non-negative daily counts, the empty one and
\* steeply falling ones included, each of the seven predicted counts is an
\* integer and is not negative.
C26_PredictedCountNatural ==
    forecast.st = "done" =>
        \A i \in 1..ForecastDays : forecast.points[i].predicted_count \in Nat

\* A falling history whose trend takes a day's weekday average below zero.
C26_Witness ==
    /\ forecast.st = "done"
    /\ forecast.slope.num < 0
    /\ \A k \in 1..Len(history) : history[k] >= 0
    /\ \E i \in 1..ForecastDays :
          /\ forecast.points[i].base.num > 0
          /\ forecast.points[i].base.num * forecast.slope.den
                + i * forecast.slope.num * forecast.points[i].base.den < 0
          /\ forecast.points[i].predicted_count = 0

\* The last min(14, N) daily counts, oldest first.
Window == [k \in 1..Min(LastN, Len(history)) |->
              history[Len(history) - Min(LastN, Len(history)) + k]]

IsProgression(w, d) == \A k \in 1..(Len(w) - 1) : w[k + 1] = w[k] + d

\* The least-squares slope b of w against the index 0..n-1 solves
\*   b (n Sxx - Sx Sx) = n Sxy - Sx Sy.
IsLeastSquaresSlope(b, w) ==
    LET n == Len(w)
        Sx == SumSeq([k \in 1..n |-> k - 1])
        Sy == SumSeq(w)
        Sxx == SumSeq([k \in 1..n |-> (k - 1) * (k - 1)])
        Sxy == SumSeq([k \in 1..n |-> (k - 1) * w[k]])
    IN  b.num * (n * Sxx - Sx * Sx) = b.den * (n * Sxy - Sx * Sy)

\* C27: the trend slope is the least-squares slope of the last min(14, N)
\* daily counts against their index; it is d when those counts are an
\* arithmetic progression of step d, and 0 when there are fewer than 2.
C27_SlopeIsLeastSquares ==
    forecast.st = "done" =>
        /\ Len(Window) < 2 => forecast.slope.num = 0
        /\ Len(Window) >= 2 => IsLeastSquaresSlope(forecast.slope, Window)
        /\ \A d \in (0 - MaxStep)..MaxStep :
              (Len(Window) >= 2 /\ IsProgression(Window, d))
                  => forecast.slope.num = d * forecast.slope.den

\* A history longer than 14 days whose last 14 counts rise or fall by a fixed
\* step while the older days do not follow the progression.
C27_Witness ==
    /\ forecast.st = "done"
    /\ Len(history) > LastN
    /\ \E d \in ((0 - MaxStep)..MaxStep) \ {0} :
          /\ IsProgression(Window, d)
          /\ ~IsProgression(history, d)
          /\ forecast.slope.num = d * forecast.slope.den

IsWeekend(dow) == dow \in {0, 6}

\* The static bands named by the specification: the rush hours of a weekday
\* and the night, whatever the day.
BandNamed(hour, dow, density) ==
    /\ (hour \in 7..9 /\ ~IsWeekend(dow)) => density = Tenths(7)
    /\ (hour \in 17..19 /\ ~IsWeekend(dow)) => density = Tenths(8)
    /\ (hour >= 22 \/ hour <= 6) => density = Tenths(2)

\* The whole table of the hour-of-day strategy.
BandOfHourOfDay(hour, dow, density) ==
    /\ BandNamed(hour, dow, density)
    /\ (hour \in 7..9 /\ IsWeekend(dow)) => density = Tenths(4)
    /\ (hour \in 17..19 /\ IsWeekend(dow)) => density = Tenths(5)
    /\ hour \in (10..16) \cup (20..21) => density = Tenths(3)

\* The table of the route forecast.
BandOfRouteForecast(hour, density) ==
    /\ hour \in 7..9 => density = Tenths(6)
    /\ hour \in 17..19 => density = Tenths(7)
    /\ (hour >= 23 \/ hour <= 5) => density = Tenths(1)
    /\ hour \in {6} \cup (10..16) \cup (20..22) => density = Tenths(3)

\* C28 (as claimed): at every site an hour without a historical row gets the
\* static band value (0.7 for 7-9 and 0.8 for 17-19 on weekdays, 0.2 for
\* 22-6) with confidence 0.3, a route without any row included.
C28_FallbackBandsEverywhere ==
    /\ enhanced.st = "done" =>
          \A p \in DOMAIN enhanced.preds :
              (enhanced.by = "basic" \/ ~HasRow(histRows, p[2])) =>
                  /\ enhanced.preds[p].confidence = Tenths(3)
                  /\ BandNamed(p[2], (todayDow + p[1]) % 7, enhanced.preds[p].predictedDensity)
    /\ routeForecast.st # "none" =>
          /\ routeForecast.st = "done"
          /\ \A h \in Hours :
                ~HasRow(histRows, h) =>
                    /\ routeForecast.preds[h].confidence = Tenths(3)
                    /\ \E dow \in Weekdays \ {0, 6} :
                          BandNamed(h, dow, routeForecast.preds[h].predicted_density)

\* C28 (amended): the hour-of-day predictions (weekly and basic) give an hour
\* without a row the band of the hour-of-day table with confidence 0.3, also
\* for a route without any row; the route forecast gives such an hour the
\* band of its own table with confidence 0.3, and is null for a route without
\* any row.
C28_FallbackBandsPerSite ==
    /\ enhanced.st = "done" =>
          \A p \in DOMAIN enhanced.preds :
              (enhanced.by = "basic" \/ ~HasRow(histRows, p[2])) =>
                  /\ enhanced.preds[p].confidence = Tenths(3)
                  /\ BandOfHourOfDay(p[2], (todayDow + p[1]) % 7,
                                     enhanced.preds[p].predictedDensity)
    /\ routeForecast.st # "none" =>
          /\ routeForecast.st = "null" <=> histRows = {}
          /\ routeForecast.st = "done" =>
                \A h \in Hours :
                    ~HasRow(histRows, h) =>
                        /\ routeForecast.preds[h].confidence = Tenths(3)
                        /\ BandOfRouteForecast(h, routeForecast.preds[h].predicted_density)

\* A route with a row for some hours only: the weekly predictions and the
\* route forecast have both filled the other hours in.
C28_Witness ==
    /\ enhanced.st = "done" /\ enhanced.by = "weekly"
    /\ routeForecast.st = "done"
    /\ \E g, h \in KeyHours :
          /\ HasRow(histRows, g) /\ ~HasRow(histRows, h)
          /\ enhanced.preds[<<1, g>>].predictedDensity = Hundredths(55)
          /\ enhanced.preds[<<1, h>>].predictedDensity # routeForecast.preds[h].predicted_density

\* C29: getDefaultTrafficDensity answers for every hour 0..23: 0.6 for 7-9,
\* 0.7 for 17-19, 0.1 for 23 and 0-5, 0.3 for every other hour. Seen in the
\* route forecast, which calls it for exactly the hours without a row.
C29_DefaultTrafficDensityTotal ==
    routeForecast.st = "done" =>
        /\ DOMAIN routeForecast.preds = 0..23
        /\ \A h \in 0..23 :
              ~HasRow(histRows, h) =>
                  routeForecast.preds[h].predicted_density
                      = CASE h \in 7..9 -> 6 * (Scale \div 10)
                          [] h \in 17..19 -> 7 * (Scale \div 10)
                          [] h \in {23} \cup (0..5) -> Scale \div 10
                          [] OTHER -> 3 * (Scale \div 10)

\* The forecast of a route with a single row: 23 hours got their default.
C29_Witness ==
    /\ routeForecast.st = "done"
    /\ Cardinality(histRows) = 1
    /\ routeForecast.preds[6].predicted_density = 3 * (Scale \div 10)
    /\ routeForecast.preds[22].predicted_density = 3 * (Scale \div 10)
    /\ routeForecast.preds[0].predicted_density = Scale \div 10

\* How many rows of the set read are for target day d.
RowsForDay(rws, d) ==
    LET sel == {r \in DOMAIN rws : r.target_day = d}
        RECURSIVE Total(_)
        Total(S) == IF S = {} THEN 0
                    ELSE LET r == CHOOSE x \in S : TRUE IN rws[r] + Total(S \ {r})
    IN  Total(sel)

\* C30: the rows written by one persistForecast call carry one generation
\* timestamp, and whenever rows exist, the set read by maximum generation
\* timestamp between two calls holds exactly one row for each of the 7 target
\* days, all written by one call.
C30_LatestSetIsOneForecast ==
    /\ \A r, q \in DOMAIN bookingForecasts :
          r.call = q.call => r.forecast_date = q.forecast_date
    /\ (latest.st = "read" /\ DOMAIN latest.rows # {}) =>
          /\ \A d \in 1..ForecastDays : RowsForDay(latest.rows, d) = 1
          /\ \A r, q \in DOMAIN latest.rows : r.call = q.call

\* C31: whatever the batch and whatever the destination answers, the
\* streaming write and the query execution end the same way for the caller,
\* and when both return they have stored the same rows.
C31_ModesInterchangeable ==
    (ilpSave.st # "none" /\ httpSave.st # "none") =>
        /\ ilpSave.st = httpSave.st
        /\ ilpSave.st = "returned" =>
              /\ ilpSave.stored = httpSave.stored
              /\ ilpSave.row.tag = httpSave.row.tag
              /\ ilpSave.row.fields = httpSave.row.fields

\* The tables of a sequence of table names.
Range(sq) == {sq[k] : k \in DOMAIN sq}

\* C32: in one invocation of a write path of the query endpoint, an INSERT is
\* sent only after the CREATE TABLE IF NOT EXISTS of its table, and of every
\* table the path ensures, was answered with success; and a CREATE TABLE IF
\* NOT EXISTS leaves an existing table with the rows it had.
C32_DdlBeforeInsert ==
    /\ \A k \in DOMAIN stmtLog :
          stmtLog[k].kind = "insert" =>
              \A t \in Range(DdlOf(writePath.path)) \cup {stmtLog[k].table} :
                  \E j \in 1..(k - 1) :
                      /\ stmtLog[j].kind = "create"
                      /\ stmtLog[j].table = t
                      /\ stmtLog[j].ok
    /\ \A k \in DOMAIN stmtLog :
          stmtLog[k].kind = "create" =>
              /\ stmtLog[k].before # -1 => stmtLog[k].after = stmtLog[k].before
              /\ stmtLog[k].after \in {stmtLog[k].before, 0}

\* An invocation on a store that holds rows: its DDL failed once, was
\* repeated, found the table with its rows, and its INSERT added to them.
C32_Witness ==
    /\ writePath.pc = "idle"
    /\ \E i, j, k \in DOMAIN stmtLog :
          /\ i < j /\ j < k
          /\ stmtLog[i].kind = "create" /\ ~stmtLog[i].ok
          /\ stmtLog[j].kind = "create" /\ stmtLog[j].ok
          /\ stmtLog[j].table = stmtLog[i].table /\ stmtLog[j].before > 0
          /\ stmtLog[k].kind = "insert" /\ stmtLog[k].ok
          /\ stmtLog[k].table = stmtLog[j].table
          /\ stmtLog[k].after = stmtLog[k].before + 1

\* No unit of work is in progress.
AllReturned == \A p \in DOMAIN inv : inv[p].pc = "idle"

\* C33: once a unit of work (processWeeklyAnalytics,
\* generateTrafficPredictions, getRouteAnalyticsSummary, getRouteTrafficSummary
\* or a migration run) has returned or thrown, on whatever path, pgClient is
\* null again and no client it created is still connecting, open or ending.
C33_ConnectionReleased ==
    AllReturned =>
        /\ pgClient = NoClient
        /\ \A c \in DOMAIN clients : clients[c] \notin Live

\* A unit of work failed after it had connected, and its client is ended.
C33_Witness ==
    /\ AllReturned
    /\ \E p \in DOMAIN inv :
          /\ inv[p].done = MaxUnits
          /\ inv[p].outcome = "query_failed"
    /\ \E c \in DOMAIN clients : clients[c] = "ended"

\* C34: overlapping units of work do not disturb one another: none fails with
\* 'Not connected to database', and none queries a client that is not yet
\* connected or already closed.
C34_InvocationsIndependent ==
    \A p \in DOMAIN inv :
        /\ inv[p].outcome # "not_connected"
        /\ ~inv[p].badQuery

\* The rollup phase has issued a write to the destination.
WeeklyWritten == weeklyRequests > 0

\* The control flow around the rollup phase: its writes come only in a real
\* run, after the batch loop was left without an exception.
WeeklyAfterBatchLoop ==
    WeeklyWritten =>
        /\ ~dryRun
        /\ failure = "none"
        /\ pc \in {"weekly_week", "finally", "done"}

\* C35: the rollup phase runs only after the row migration: no weekly-summary
\* write is issued before the last row batch was written successfully, none
\* when the row migration failed, and none in a dry run.
C35_WeeklyOnlyAfterRows ==
    WeeklyWritten =>
        /\ ~dryRun
        /\ failure = "none"
        /\ pc \in {"weekly_week", "finally", "done"}
        /\ failedAt = -1

InUnitInterval(x) == ~x.nan /\ 0 <= x.num /\ x.num <= x.den

\* C36: every analysis analyzeRouteTraffic produces has traffic_density in
\* [0, 1], whatever non-negative durations the mapping API answered with, and
\* a severity that is one of low, moderate, high, severe.
C36_DensityInUnitInterval ==
    analysis.st = "analysis" =>
        /\ InUnitInterval(analysis.traffic_density)
        /\ analysis.traffic_severity \in {"low", "moderate", "high", "severe"}

\* C37: getEnhancedPredictions never fails: whether the weekly service
\* answers, throws or is not configured, it returns 42 predictions, one for
\* each of the next 7 days at each of the hours 7, 9, 12, 17, 19 and 22, and
\* the predictions of the heuristic fallback all have confidence 0.3.
C37_AlwaysFortyTwoPredictions ==
    enhanced # NoPredictions =>
        /\ enhanced.st = "done"
        /\ DOMAIN enhanced.preds = (1..7) \X {7, 9, 12, 17, 19, 22}
        /\ Cardinality(DOMAIN enhanced.preds) = 42
        /\ enhanced.by = "basic" =>
              \A p \in DOMAIN enhanced.preds :
                  enhanced.preds[p].confidence = Tenths(3)

\* The fallback answered, on a day whose forecast week starts on a weekend.
C37_Witness ==
    /\ enhanced.st = "done"
    /\ enhanced.by = "basic"
    /\ IsWeekend((todayDow + 1) % 7)

\* The run was aborted by the connectivity test.
TestAborted == failure = "test"

\* C38: a real run whose connectivity test fails aborts before any count
\* query, batch fetch or destination write, while in a dry run the count
\* follows the test whatever the test found; in both cases the source
\* connection is closed when migrate returns.
C38_FailedTestAbortsRealRunOnly ==
    /\ [](TestAborted =>
            /\ ~dryRun
            /\ pc \in {"finally", "done"}
            /\ countedAt = -1 /\ totalRecords = 0
            /\ fetchLog = <<>>
            /\ nWrites = 0 /\ tsRequests = 0 /\ weeklyRequests = 0)
    /\ [][pc = "test" /\ dryRun => pc' = "count"]_vars
    /\ [](pc = "done" => ~connected)

\* A real run over a non-empty source has returned after its test failed.
C38_Witness ==
    /\ TestAborted
    /\ pc = "done"
    /\ result = "failed"
    /\ srcMatch > 0

\* The last rollup push threw (the encoder or the destination failed).
WeekFailed == lastWrite.op = "push" /\ lastWrite.threw

\* C39: in the rollup phase a week whose rollup fails is logged and skipped:
\* the loop attempts the weeks 1, 2, ..., weeksDiff in this order, one a step,
\* whatever happened to the weeks before, and the run still ends successfully.
C39_FailedWeekSkipped ==
    /\ [][pc = "weekly_week" =>
            /\ weekOffset' = weekOffset + 1
            /\ failure' = "none"
            /\ pc' = IF weekOffset' < weeksDiff THEN "weekly_week" ELSE "finally"]_vars
    /\ [](pc = "weekly_week" => weekOffset < weeksDiff /\ failure = "none")
    /\ [](weekOffset > 0 /\ pc \in {"finally", "done"} =>
            weekOffset = weeksDiff /\ failure = "none")
    /\ [](weekOffset > 0 /\ pc = "done" => result = "ok")

\* The rollup of a week has failed and a later week is about to be attempted.
C39_Witness ==
    /\ WeekFailed
    /\ pc = "weekly_week"
    /\ weekOffset = 1
    /\ weeksDiff = 2

\* The place of a request in the order fetch, analyze, store, forecast.
StepRank(kind) ==
    CASE kind = "fetch" -> 0
      [] kind = "analyze" -> 1
      [] kind \in {"store_ddl", "store_insert"} -> 2
      [] OTHER -> 3

CountOf(kind) == Cardinality({k \in DOMAIN runLog : runLog[k] = kind})

Returned == run.pc = "done"

\* C40: runTrafficAnalytics never throws and issues its requests in the order
\* fetch, analyze, store, forecast, the last only if requested; with no
\* active route it returns success with 0 routes after the fetch alone; a route
\* whose analysis or forecast fails does not keep the other routes from being
\* analysed and forecast; a failure of the fetch or of the store yields
\* success = false with 0 routes and 0 forecasts; forecastsGenerated never
\* exceeds the number of routes.
C40_RunNeverThrows ==
    /\ \A j, k \in DOMAIN runLog : j < k => StepRank(runLog[j]) <= StepRank(runLog[k])
    /\ runLog # <<>> => runLog[1] = "fetch" /\ CountOf("fetch") = 1
    /\ ~run.generateForecasts => CountOf("forecast") = 0
    /\ Returned => run.result.routesAnalyzed >= 0
    /\ Returned /\ run.routes = 0 /\ run.failedIn = "none" =>
          /\ run.result = [success |-> TRUE, routesAnalyzed |-> 0, forecastsGenerated |-> 0]
          /\ runLog = <<"fetch">>
    /\ run.pc \in {"store_connect", "store_ddl", "store_insert", "forecast_connect", "forecast"}
          => CountOf("analyze") = run.routes
    /\ Returned /\ CountOf("forecast") > 0 =>
          /\ CountOf("forecast") = run.routes
          /\ run.result.success
    /\ Returned /\ run.result.success /\ run.routes > 0 =>
          /\ CountOf("analyze") = run.routes
          /\ run.generateForecasts => CountOf("forecast") = run.routes
    /\ Returned /\ run.failedIn \in {"fetch", "store"} =>
          run.result = [success |-> FALSE, routesAnalyzed |-> 0, forecastsGenerated |-> 0]
    /\ run.forecastsGenerated <= run.routes
    /\ Returned => run.result.forecastsGenerated <= run.routes

\* A run over three routes returned successfully although the analysis of a
\* route and the forecast of a route failed.
C40_Witness ==
    /\ Returned
    /\ run.result.success
    /\ run.routes = MaxRoutes
    /\ run.analyses < run.routes
    /\ run.generateForecasts
    /\ run.result.forecastsGenerated \in 1..(run.routes - 1)

=============================================================================
